---- MODULE Spec2Model ----
(***************************************************************************)
(* Structural diff / patch engine of src/src/Diff.ts: the operation model, *)
(* reversal, the patch executor (runOp), the differ compiler (go) and the  *)
(* JSON-Patch lowering (getJSONPatch); and the JSON-only differ of         *)
(* src/src/DiffJson.ts.                                                    *)
(*                                                                         *)
(* JavaScript values are records [k, s, v]: k is the kind, s the atom of a *)
(* primitive (or the reference identity of an object, "" when the object   *)
(* is a fresh allocation), v the children (entries [key, val] of an        *)
(* object, elements of an array).  Property keys are records [sym, n]: n   *)
(* is the key's text as a sequence of one-character strings.               *)
(***************************************************************************)
EXTENDS Integers, Sequences, FiniteSets, TLC

VARIABLES ast, from, to, patch, out, rev, rev2, back, jp, doc, stack, compiled, again

vars == <<ast, from, to, patch, out, rev, rev2, back, jp, doc, stack, compiled, again>>

(***************************************************************************)
(* Bounds of the model.                                                    *)
(***************************************************************************)
\* length of a variable-length array value at most
MaxLen == 2
\* nodes of a hand-built operation tree at most
MaxNodes == 3
\* frames of go the call stack holds at most
MaxCallStack == 6

(***************************************************************************)
(* JavaScript values.                                                      *)
(***************************************************************************)
Num(s) == [k |-> "number", s |-> s, v |-> <<>>]
Str(s) == [k |-> "string", s |-> s, v |-> <<>>]
Bool(s) == [k |-> "boolean", s |-> s, v |-> <<>>]
undefined == [k |-> "undefined", s |-> "", v |-> <<>>]
Obj(ref, entries) == [k |-> "object", s |-> ref, v |-> entries]
Arr(ref, elems) == [k |-> "array", s |-> ref, v |-> elems]
\* the value of a variable no operation has written yet
NoValue == [k |-> "none", s |-> "", v |-> <<>>]

\* a symbol as a value; its description is the text of the key it names
SymbolValue(key) == [k |-> "symbol", s |-> "", v |-> key.n]

StrKey(chars) == [sym |-> FALSE, n |-> chars]
SymKey(chars) == [sym |-> TRUE, n |-> chars]

NaN == Num("NaN")
PlusZero == Num("+0")
MinusZero == Num("-0")
One == Num("1")

IsContainer(a) == a.k \in {"object", "array"}

\* Object.is(a, b)
ObjectIs(a, b) ==
  IF IsContainer(a) \/ IsContainer(b)
  THEN a.k = b.k /\ a.s # "" /\ a.s = b.s
  ELSE a = b

\* a === b
StrictEq(a, b) ==
  IF IsContainer(a) \/ IsContainer(b)
  THEN a.k = b.k /\ a.s # "" /\ a.s = b.s
  ELSE IF a.k = "number" /\ b.k = "number"
       THEN /\ a # NaN
            /\ b # NaN
            /\ \/ a = b
               \/ {a, b} = {PlusZero, MinusZero}
       ELSE a = b

\* Object.prototype.hasOwnProperty.call(a, name)
hasOwnProperty(a, name) ==
  a.k = "object" /\ \E i \in 1..Len(a.v) : a.v[i].key = name

\* a[name] on an object
GetProp(a, name) ==
  IF hasOwnProperty(a, name)
  THEN a.v[CHOOSE i \in 1..Len(a.v) : a.v[i].key = name].val
  ELSE undefined

IsStrEntry(e) == ~e.key.sym
IsSymEntry(e) == e.key.sym

\* out[name] = val: an existing key keeps its place; a new string key is
\* enumerated after the other string keys and before the symbol keys
SetProp(a, name, val) ==
  IF hasOwnProperty(a, name)
  THEN [a EXCEPT !.v = [i \in 1..Len(a.v) |->
          IF a.v[i].key = name THEN [key |-> name, val |-> val] ELSE a.v[i]]]
  ELSE IF name.sym
       THEN [a EXCEPT !.v = Append(a.v, [key |-> name, val |-> val])]
       ELSE [a EXCEPT !.v = SelectSeq(a.v, IsStrEntry)
                              \o <<[key |-> name, val |-> val]>>
                              \o SelectSeq(a.v, IsSymEntry)]

\* delete out[name]
DeleteProp(a, name) ==
  LET Keep(e) == e.key # name IN [a EXCEPT !.v = SelectSeq(a.v, Keep)]

\* const out = a: the object itself instead of a copy of it
SpreadAlias(a) == a

\* const out = {}: a fresh object with no entry
SpreadNothing(a) == Obj("", <<>>)

\* { ...a }: a fresh object with the own entries of a
Spread(a) == Obj("", IF a.k = "object" THEN a.v ELSE <<>>)

\* a[i] on an array, i counted from 0
GetIndex(a, i) ==
  IF a.k = "array" /\ i >= 0 /\ i < Len(a.v) THEN a.v[i + 1] ELSE undefined

\* a.slice(): a fresh array with the elements of a
Slice(a) == Arr("", a.v)

\* out[i] = val on an array: writing past the end leaves holes, read as undefined
SetIndex(a, i, val) ==
  IF i < Len(a.v)
  THEN [a EXCEPT !.v = [j \in 1..Len(a.v) |-> IF j = i + 1 THEN val ELSE a.v[j]]]
  ELSE [a EXCEPT !.v = [j \in 1..(i + 1) |->
          IF j <= Len(a.v) THEN a.v[j] ELSE IF j = i + 1 THEN val ELSE undefined]]

Min(x, y) == IF x < y THEN x ELSE y

\* out.splice(i, 0, val)
SpliceInsert(a, i, val) ==
  LET at == Min(i, Len(a.v))
  IN  [a EXCEPT !.v = SubSeq(a.v, 1, at) \o <<val>> \o SubSeq(a.v, at + 1, Len(a.v))]

\* out.splice(i, 1)
SpliceRemove(a, i) ==
  IF i < Len(a.v)
  THEN [a EXCEPT !.v = SubSeq(a.v, 1, i) \o SubSeq(a.v, i + 2, Len(a.v))]
  ELSE a

(***************************************************************************)
(* Structural equality of two values: the same kind, the same own keys     *)
(* with structurally equal values (whatever the key order), the same       *)
(* length and elements, leaves compared by Object.is; the reference        *)
(* identity of a container is not compared.                                *)
(***************************************************************************)
RECURSIVE StructEq(_, _)
StructEq(a, b) ==
  IF a.k # b.k THEN FALSE
  ELSE IF a.k = "object"
       THEN /\ Len(a.v) = Len(b.v)
            /\ \A i \in 1..Len(a.v) :
                 /\ hasOwnProperty(b, a.v[i].key)
                 /\ StructEq(a.v[i].val, GetProp(b, a.v[i].key))
       ELSE IF a.k = "array"
            THEN /\ Len(a.v) = Len(b.v)
                 /\ \A i \in 1..Len(a.v) : StructEq(a.v[i], b.v[i])
            ELSE a = b

(***************************************************************************)
(* ops                                                                     *)
(***************************************************************************)
identical == [_tag |-> "Identical"]
replace(f, t) == [_tag |-> "Replace", from |-> f, to |-> t]
objectOps(ops) == [_tag |-> "ObjectOps", ops |-> ops]
arrayOps(ops) == [_tag |-> "ArrayOps", ops |-> ops]
add(value) == [_tag |-> "Add", value |-> value]
remove(value) == [_tag |-> "Remove", value |-> value]
\* the value of a variable holding an operation before it is computed
NoOp == [_tag |-> "None"]

isIdentical(op) == op._tag = "Identical"

\* ReadonlyArray.isNonEmptyReadonlyArray
isNonEmptyReadonlyArray(ops) == Len(ops) > 0

\* reverseReplace returning the Replace it is given
reverseReplaceUnchanged(op) == op

reverseReplace(op) == replace(op.to, op.from)

RECURSIVE reverseNestedOp(_)

\* the entries reversed one by one and listed last to first
reverseEntriesBackwards(ops) ==
  [i \in 1..Len(ops) |-> [key |-> ops[Len(ops) + 1 - i].key,
                          op |-> reverseNestedOp(ops[Len(ops) + 1 - i].op)]]

\* ReadonlyArray.mapNonEmpty(op.ops, ([key, op]) => [key, reverseNestedOp(op)])
reverseEntries(ops) ==
  [i \in 1..Len(ops) |-> [key |-> ops[i].key, op |-> reverseNestedOp(ops[i].op)]]

reverseObjectOps(op) == objectOps(reverseEntries(op.ops))

reverseArrayOps(op) == arrayOps(reverseEntries(op.ops))

\* reverseNestedOp with the Remove case returning a Remove
reverseNestedOpKeepsRemove(op) ==
  CASE op._tag = "Replace" -> reverseReplace(op)
    [] op._tag = "Add" -> remove(op.value)
    [] op._tag = "Remove" -> remove(op.value)
    [] op._tag = "ObjectOps" -> reverseObjectOps(op)
    [] op._tag = "ArrayOps" -> reverseArrayOps(op)

reverseNestedOp(op) ==
  CASE op._tag = "Replace" -> reverseReplace(op)
    [] op._tag = "Add" -> remove(op.value)
    [] op._tag = "Remove" -> add(op.value)
    [] op._tag = "ObjectOps" -> reverseObjectOps(op)
    [] op._tag = "ArrayOps" -> reverseArrayOps(op)

reverseOp(op) ==
  CASE op._tag = "Identical" -> op
    [] op._tag = "Replace" -> reverseReplace(op)
    [] op._tag = "ObjectOps" -> reverseObjectOps(op)
    [] op._tag = "ArrayOps" -> reverseArrayOps(op)

(***************************************************************************)
(* Patch                                                                   *)
(***************************************************************************)
make(op) == [op |-> op]

reverse(p) == make(reverseOp(p.op))

RECURSIVE runOp(_, _)

\* the loop of the ObjectOps case over op.ops[i..]; o is the copy being built
RECURSIVE runObjectEntries(_, _, _, _)
runObjectEntries(ops, i, a, o) ==
  IF i > Len(ops) THEN o
  ELSE LET name == ops[i].key
           subop == ops[i].op
           next == CASE subop._tag \in {"Replace", "ObjectOps", "ArrayOps"} ->
                          SetProp(o, name, runOp(subop, GetProp(a, name)))
                     [] subop._tag = "Add" -> SetProp(o, name, subop.value)
                     [] subop._tag = "Remove" -> DeleteProp(o, name)
       IN  runObjectEntries(ops, i + 1, a, next)

\* the loop of the ArrayOps case over op.ops[i..]; o is the copy being built
RECURSIVE runArrayEntries(_, _, _, _)
runArrayEntries(ops, i, a, o) ==
  IF i > Len(ops) THEN o
  ELSE LET index == ops[i].key
           subop == ops[i].op
           next == CASE subop._tag \in {"Replace", "ObjectOps", "ArrayOps"} ->
                          SetIndex(o, index, runOp(subop, GetIndex(a, index)))
                     [] subop._tag = "Add" -> SpliceInsert(o, index, subop.value)
                     [] subop._tag = "Remove" -> SpliceRemove(o, index)
       IN  runArrayEntries(ops, i + 1, a, next)

runOp(op, a) ==
  CASE op._tag = "Identical" -> a
    [] op._tag = "Replace" -> op.to
    [] op._tag = "ObjectOps" -> runObjectEntries(op.ops, 1, a, Spread(a))
    [] op._tag = "ArrayOps" -> runArrayEntries(op.ops, 1, a, Slice(a))

runPatch(p, a) == runOp(p.op, a)

(***************************************************************************)
(* Shape descriptors (AST.AST), by their _tag.                             *)
(***************************************************************************)
numberKeyword == [_tag |-> "NumberKeyword"]
stringKeyword == [_tag |-> "StringKeyword"]
booleanKeyword == [_tag |-> "BooleanKeyword"]
symbolKeyword == [_tag |-> "SymbolKeyword"]
unknownKeyword == [_tag |-> "UnknownKeyword"]
\* S.templateLiteral(S.literal("a"), S.string): the strings that start with a
templateLiteral == [_tag |-> "TemplateLiteral"]
refinement(base) == [_tag |-> "Refinement", from |-> base]
element(type, isOptional) == [type |-> type, isOptional |-> isOptional]
\* rest is the sequence of rest element types, empty when the tuple has none
tuple(elements, rest) == [_tag |-> "Tuple", elements |-> elements, rest |-> rest]
propertySignature(name, type, isOptional) ==
  [name |-> name, type |-> type, isOptional |-> isOptional]
indexSignature(parameter, type) == [parameter |-> parameter, type |-> type]
typeLiteral(propertySignatures, indexSignatures) ==
  [_tag |-> "TypeLiteral", propertySignatures |-> propertySignatures,
   indexSignatures |-> indexSignatures]

\* AST.Lazy: f is the thunk that returns the shape, here by its name
lazy(name) == [_tag |-> "Lazy", f |-> name]

\* ast.f() of the thunks of the tests:
\* A: S.lazy(() => S.struct({ a: S.string, as: S.array(schema) }))
\* User: S.struct({ age, name, aliases, subUser: S.optional(S.lazy(() => User)) })
thunk(name) ==
  CASE name = "A" ->
         typeLiteral(<<propertySignature(StrKey(<<"a">>), stringKeyword, FALSE),
                       propertySignature(StrKey(<<"a", "s">>), tuple(<<>>, <<lazy("A")>>), FALSE)>>,
                     <<>>)
    [] name = "User" ->
         typeLiteral(<<propertySignature(StrKey(<<"a", "g", "e">>), refinement(numberKeyword), FALSE),
                       propertySignature(StrKey(<<"n", "a", "m", "e">>), stringKeyword, FALSE),
                       propertySignature(StrKey(<<"a", "l", "i", "a", "s", "e", "s">>),
                                         tuple(<<>>, <<stringKeyword>>), FALSE),
                       propertySignature(StrKey(<<"s", "u", "b", "U", "s", "e", "r">>),
                                         lazy("User"), TRUE)>>,
                     <<>>)
    [] name = "Pair" ->
         tuple(<<element(stringKeyword, FALSE), element(lazy("Pair"), TRUE)>>, <<>>)
    [] name = "Tree" ->
         typeLiteral(<<>>, <<indexSignature(stringKeyword, lazy("Tree"))>>)

LeafTags ==
  {"Declaration", "Literal", "UniqueSymbol", "UndefinedKeyword", "VoidKeyword",
   "NeverKeyword", "UnknownKeyword", "AnyKeyword", "StringKeyword",
   "BooleanKeyword", "BigIntKeyword", "SymbolKeyword", "ObjectKeyword", "Enums",
   "TemplateLiteral", "Union", "Transform"}

(***************************************************************************)
(* I.getKeysForIndexSignature(input, parameter): the own string keys of    *)
(* input for a string (or template literal) parameter, its own symbol keys *)
(* for a symbol parameter, in the object's own key order.                  *)
(***************************************************************************)
RECURSIVE getKeysForIndexSignature(_, _)
getKeysForIndexSignature(input, parameter) ==
  CASE parameter._tag \in {"StringKeyword", "TemplateLiteral"} ->
         LET es == SelectSeq(input.v, IsStrEntry)
         IN  [i \in 1..Len(es) |-> es[i].key]
    [] parameter._tag = "SymbolKeyword" ->
         LET es == SelectSeq(input.v, IsSymEntry)
         IN  [i \in 1..Len(es) |-> es[i].key]
    [] parameter._tag = "Refinement" ->
         getKeysForIndexSignature(input, parameter.from)

(***************************************************************************)
(* Differ: go(ast)(from, to).  The differ compiled for a shape is the      *)
(* function of the two values that differ(ast, f, t) computes.             *)
(***************************************************************************)
\* the number differ comparing with === instead of Object.is
numberDifferStrict(f, t) == make(IF StrictEq(f, t) THEN identical ELSE replace(f, t))

\* case "NumberKeyword"
numberDiffer(f, t) == make(IF ObjectIs(f, t) THEN identical ELSE replace(f, t))

\* a leaf differ that compares nothing
leafDifferAlwaysReplace(f, t) == make(replace(f, t))

\* the other leaf cases
leafDiffer(f, t) == make(IF StrictEq(f, t) THEN identical ELSE replace(f, t))

\* const expectedKeys: the declared names of the property signatures
expectedKeys(a) == {a.propertySignatures[i].name : i \in 1..Len(a.propertySignatures)}

\* the ops array of the differ's previous call, as if the differ kept one
\* array across its calls
opsOfLastCall == IF patch.op._tag \in {"ObjectOps", "ArrayOps"} THEN patch.op.ops ELSE <<>>

\* const ops = []: every call of a tuple or type literal differ allocates its own
newOps == <<>>

RECURSIVE differ(_, _, _)

\* the loop over the elements telling an absent position from a present one:
\* Add for a position only t has, Remove for a position only f has
RECURSIVE tupleElementsByPresence(_, _, _, _, _)
tupleElementsByPresence(a, i, f, t, ops) ==
  IF i >= Len(a.elements) THEN ops
  ELSE LET op == CASE i >= Len(f.v) /\ i < Len(t.v) -> add(GetIndex(t, i))
                   [] i < Len(f.v) /\ i >= Len(t.v) -> remove(GetIndex(f, i))
                   [] OTHER -> differ(a.elements[i + 1].type, GetIndex(f, i), GetIndex(t, i)).op
       IN  tupleElementsByPresence(a, i + 1, f, t,
             IF ~isIdentical(op) THEN Append(ops, [key |-> i, op |-> op]) ELSE ops)

\* the loop over the elements of a tuple, from position i (counted from 0)
RECURSIVE tupleElements(_, _, _, _, _)
tupleElements(a, i, f, t, ops) ==
  IF i >= Len(a.elements) THEN ops
  ELSE LET op == differ(a.elements[i + 1].type, GetIndex(f, i), GetIndex(t, i)).op
       IN  tupleElements(a, i + 1, f, t,
             IF ~isIdentical(op) THEN Append(ops, [key |-> i, op |-> op]) ELSE ops)

\* propertyEntry testing presence by the value (from[name] !== undefined)
\* instead of by own-key presence
propertyEntryByValue(ps, f, t) ==
  LET name == ps.name
  IN  IF GetProp(f, name) # undefined
      THEN IF GetProp(t, name) # undefined
           THEN LET op == differ(ps.type, GetProp(f, name), GetProp(t, name)).op
                IN  IF ~isIdentical(op) THEN <<[key |-> name, op |-> op]>> ELSE <<>>
           ELSE <<[key |-> name, op |-> remove(GetProp(f, name))]>>
      ELSE IF GetProp(t, name) # undefined
           THEN <<[key |-> name, op |-> add(GetProp(t, name))]>>
           ELSE <<>>

\* propertyEntry recording that a key was present, not the value it held
propertyEntryPresenceOnly(ps, f, t) ==
  LET name == ps.name
  IN  IF hasOwnProperty(f, name)
      THEN IF hasOwnProperty(t, name)
           THEN LET op == differ(ps.type, GetProp(f, name), GetProp(t, name)).op
                IN  IF ~isIdentical(op) THEN <<[key |-> name, op |-> op]>> ELSE <<>>
           ELSE <<[key |-> name, op |-> remove(undefined)]>>
      ELSE IF hasOwnProperty(t, name)
           THEN <<[key |-> name, op |-> add(GetProp(t, name))]>>
           ELSE <<>>

\* what one property signature adds to ops
propertyEntry(ps, f, t) ==
  LET name == ps.name
  IN  IF hasOwnProperty(f, name)
      THEN IF hasOwnProperty(t, name)
           THEN LET op == differ(ps.type, GetProp(f, name), GetProp(t, name)).op
                IN  IF ~isIdentical(op) THEN <<[key |-> name, op |-> op]>> ELSE <<>>
           ELSE <<[key |-> name, op |-> remove(GetProp(f, name))]>>
      ELSE IF hasOwnProperty(t, name)
           THEN <<[key |-> name, op |-> add(GetProp(t, name))]>>
           ELSE <<>>

\* the loop over the property signatures, from signature i (counted from 1)
RECURSIVE propertySignatures(_, _, _, _, _)
propertySignatures(a, i, f, t, ops) ==
  IF i > Len(a.propertySignatures) THEN ops
  ELSE propertySignatures(a, i + 1, f, t,
         ops \o propertyEntry(a.propertySignatures[i], f, t))

\* the loop "for (const name of fromKeys)" from key j
RECURSIVE fromKeysLoop(_, _, _, _, _, _, _)
fromKeysLoop(a, type, fromKeys, j, f, t, ops) ==
  IF j > Len(fromKeys) THEN ops
  ELSE LET name == fromKeys[j]
           more ==
             IF name \in expectedKeys(a) THEN <<>>
             ELSE IF hasOwnProperty(t, name)
                  THEN LET op == differ(type, GetProp(f, name), GetProp(t, name)).op
                       IN  IF ~isIdentical(op) THEN <<[key |-> name, op |-> op]>>
                           ELSE <<>>
                  ELSE <<[key |-> name, op |-> remove(GetProp(f, name))]>>
       IN  fromKeysLoop(a, type, fromKeys, j + 1, f, t, ops \o more)

\* the loop "for (const name of toKeys)" from key j
RECURSIVE toKeysLoop(_, _, _, _, _, _)
toKeysLoop(a, toKeys, j, f, t, ops) ==
  IF j > Len(toKeys) THEN ops
  ELSE LET name == toKeys[j]
           more ==
             IF name \in expectedKeys(a) THEN <<>>
             ELSE IF ~hasOwnProperty(f, name)
                  THEN <<[key |-> name, op |-> add(GetProp(t, name))]>>
                  ELSE <<>>
       IN  toKeysLoop(a, toKeys, j + 1, f, t, ops \o more)

\* the loop over the index signatures, from signature i (counted from 1)
RECURSIVE indexSignatures(_, _, _, _, _)
indexSignatures(a, i, f, t, ops) ==
  IF i > Len(a.indexSignatures) THEN ops
  ELSE LET is == a.indexSignatures[i]
           fromKeys == getKeysForIndexSignature(f, is.parameter)
           toKeys == getKeysForIndexSignature(t, is.parameter)
           afterFrom == fromKeysLoop(a, is.type, fromKeys, 1, f, t, ops)
       IN  indexSignatures(a, i + 1, f, t, toKeysLoop(a, toKeys, 1, f, t, afterFrom))

\* the tuple differ returning ArrayOps whether or not a position differs
tupleDifferAlwaysArrayOps(a, f, t) == make(arrayOps(tupleElements(a, 0, f, t, newOps)))

\* a tuple compared as the leaf fallback compares: by reference
tupleDifferByReference(a, f, t) == make(IF StrictEq(f, t) THEN identical ELSE replace(f, t))

\* case "Tuple": only ast.elements are compared; ast.rest is not read
tupleDiffer(a, f, t) ==
  LET ops == tupleElements(a, 0, f, t, newOps)
  IN  make(IF isNonEmptyReadonlyArray(ops) THEN arrayOps(ops) ELSE identical)

\* the type literal differ handling the index signatures before the
\* property signatures
typeLiteralDifferIndexFirst(a, f, t) ==
  LET ops == propertySignatures(a, 1, f, t, indexSignatures(a, 1, f, t, newOps))
  IN  make(IF isNonEmptyReadonlyArray(ops) THEN objectOps(ops) ELSE identical)

\* case "TypeLiteral"
typeLiteralDiffer(a, f, t) ==
  LET ops == indexSignatures(a, 1, f, t, propertySignatures(a, 1, f, t, newOps))
  IN  make(IF isNonEmptyReadonlyArray(ops) THEN objectOps(ops) ELSE identical)

\* a refinement differ that checks its values before it compares them: a
\* number that is NaN satisfies no refinement of the model
refinementDifferChecked(a, f, t) ==
  IF f = NaN \/ t = NaN THEN make(replace(f, t)) ELSE differ(a.from, f, t)

\* case "Refinement": go(ast.from); nothing else of the node is read
refinementDiffer(a, f, t) == differ(a.from, f, t)

differ(a, f, t) ==
  CASE a._tag = "NumberKeyword" -> numberDiffer(f, t)
    [] a._tag \in LeafTags -> leafDiffer(f, t)
    [] a._tag = "Refinement" -> refinementDiffer(a, f, t)
    [] a._tag = "Lazy" -> differ(thunk(a.f), f, t)
    [] a._tag = "Tuple" -> tupleDiffer(a, f, t)
    [] a._tag = "TypeLiteral" -> typeLiteralDiffer(a, f, t)

\* the shapes go(a) calls go on while it compiles a, in call order: the base
\* of a refinement, what the thunk of a lazy shape returns, the element types
\* of a tuple (not its rest), the types of the property signatures and then
\* of the index signatures of a type literal
goCalls(a) ==
  CASE a._tag = "Refinement" -> <<a.from>>
    [] a._tag = "Lazy" -> <<thunk(a.f)>>
    [] a._tag = "Tuple" -> [i \in 1..Len(a.elements) |-> a.elements[i].type]
    [] a._tag = "TypeLiteral" ->
         [i \in 1..Len(a.propertySignatures) |-> a.propertySignatures[i].type]
           \o [i \in 1..Len(a.indexSignatures) |-> a.indexSignatures[i].type]
    [] OTHER -> <<>>

\* a call of go in progress: its shape and how many of its calls have returned
frame(a) == [ast |-> a, returned |-> 0]

\* one step of the innermost call of go: it makes its next call, or returns
\* to its caller; a call the stack has no room for throws "Maximum call
\* stack size exceeded", which unwinds every frame
goStep(frames) ==
  LET top == frames[Len(frames)]
      calls == goCalls(top.ast)
  IN  IF top.returned < Len(calls)
      THEN IF Len(frames) >= MaxCallStack
           THEN [stack |-> <<>>, compiled |-> "overflow"]
           ELSE [stack |-> Append(frames, frame(calls[top.returned + 1])),
                 compiled |-> "running"]
      ELSE IF Len(frames) = 1
           THEN [stack |-> <<>>, compiled |-> "done"]
           ELSE [stack |-> [SubSeq(frames, 1, Len(frames) - 1)
                              EXCEPT ![Len(frames) - 1].returned = @ + 1],
                 compiled |-> "running"]

\* fromSchema(schema)(f, t)
fromSchema(schema, f, t) == differ(schema, f, t)

(***************************************************************************)
(* JSONPatch                                                               *)
(***************************************************************************)
\* s.replaceAll(c, r) for a one-character pattern c
RECURSIVE replaceAll(_, _, _)
replaceAll(s, c, r) ==
  IF s = <<>> THEN <<>>
  ELSE (IF Head(s) = c THEN r ELSE <<Head(s)>>) \o replaceAll(Tail(s), c, r)

\* the two replacements in the other order
escapeSegmentSlashFirst(s) ==
  <<"/">> \o replaceAll(replaceAll(s, "/", <<"~", "1">>), "~", <<"~", "0">>)

\* "/" + s: the segment as it is
escapeSegmentUnescaped(s) == <<"/">> \o s

\* "/" + s.replaceAll("~", "~0").replaceAll("/", "~1")
escapeSegment(s) ==
  <<"/">> \o replaceAll(replaceAll(s, "~", <<"~", "0">>), "/", <<"~", "1">>)

\* path.map(...).join("")
RECURSIVE pointer(_)
pointer(path) ==
  IF path = <<>> THEN <<>> ELSE escapeSegment(Head(path)) \o pointer(Tail(path))

Digits == <<"0", "1", "2", "3", "4", "5", "6", "7", "8", "9">>

\* String(key) of a non-negative integer
RECURSIVE String(_)
String(n) ==
  IF n < 10 THEN <<Digits[n + 1]>>
  ELSE String(n \div 10) \o <<Digits[(n % 10) + 1]>>

\* S.json under onExcessProperty "error": null, string, number, boolean,
\* arrays of JSON values and objects whose own keys are strings holding JSON values
RECURSIVE IsJson(_)
IsJson(a) ==
  CASE a.k \in {"null", "string", "number", "boolean"} -> TRUE
    [] a.k = "array" -> \A i \in 1..Len(a.v) : IsJson(a.v[i])
    [] a.k = "object" -> \A i \in 1..Len(a.v) : ~a.v[i].key.sym /\ IsJson(a.v[i].val)
    [] OTHER -> FALSE

\* S.string
IsString(key) == ~key.sym

\* A traversal in progress: the entries pushed to out so far, the path stack
\* and whether a validation has thrown (then error is the offending key or value).
Going(entries, path) == [thrown |-> FALSE, out |-> entries, path |-> path, error |-> undefined]
Thrown(entries, path, error) == [thrown |-> TRUE, out |-> entries, path |-> path, error |-> error]

\* const replace = (to) => out.push({ op: "replace", path: pointer(path), value: validateJson(to) })
pushReplace(acc, path, t) ==
  IF IsJson(t)
  THEN Going(Append(acc, [op |-> "replace", path |-> pointer(path), value |-> t]), path)
  ELSE Thrown(acc, path, t)

\* pushAdd without validateJson
pushAddUnvalidated(acc, path, value) ==
  Going(Append(acc, [op |-> "add", path |-> pointer(path), value |-> value]), path)

\* const add = (value) => out.push({ op: "add", path: pointer(path), value: validateJson(value) })
pushAdd(acc, path, value) ==
  IF IsJson(value)
  THEN Going(Append(acc, [op |-> "add", path |-> pointer(path), value |-> value]), path)
  ELSE Thrown(acc, path, value)

\* const remove = () => out.push({ op: "remove", path: pointer(path) })
pushRemove(acc, path) ==
  Going(Append(acc, [op |-> "remove", path |-> pointer(path)]), path)

\* path.pop() left out
popNothing(path) == path

\* path.pop()
pop(path) == SubSeq(path, 1, Len(path) - 1)

RECURSIVE lowerEntries(_, _, _, _)

\* the switch on op._tag inside objectOps and arrayOps, path already pushed
lowerNested(op, path, acc) ==
  CASE op._tag = "Replace" -> pushReplace(acc, path, op.to)
    [] op._tag = "Add" -> pushAdd(acc, path, op.value)
    [] op._tag = "Remove" -> pushRemove(acc, path)
    [] op._tag \in {"ObjectOps", "ArrayOps"} -> lowerEntries(op, path, 1, acc)

\* op.ops.forEach(...) of objectOps (keys through validateString) and of
\* arrayOps (keys through String), from entry i: the key is pushed on the
\* path stack, the child is lowered, and the stack is popped
lowerEntries(op, path, i, acc) ==
  IF i > Len(op.ops) THEN Going(acc, path)
  ELSE LET key == op.ops[i].key
       IN  IF op._tag = "ObjectOps" /\ ~IsString(key)
           THEN Thrown(acc, path, SymbolValue(key))
           ELSE LET segment == IF op._tag = "ObjectOps" THEN key.n ELSE String(key)
                    r == lowerNested(op.ops[i].op, Append(path, segment), acc)
                IN  IF r.thrown THEN r ELSE lowerEntries(op, pop(r.path), i + 1, r.out)

\* the body of getJSONPatch: out and path start empty
lowerRoot(op) ==
  CASE op._tag = "Identical" -> Going(<<>>, <<>>)
    [] op._tag = "Replace" -> pushReplace(<<>>, <<>>, op.to)
    [] op._tag \in {"ObjectOps", "ArrayOps"} -> lowerEntries(op, <<>>, 1, <<>>)

\* Either.liftThrowable: Right(out) when the body returns, Left(error) when it throws
liftThrowable(r) ==
  IF r.thrown THEN [_tag |-> "Left", left |-> r.error]
  ELSE [_tag |-> "Right", right |-> r.out]

getJSONPatch(op) == liftThrowable(lowerRoot(op))

\* the value of jp before getJSONPatch has been called
NoEither == [_tag |-> "None"]

(***************************************************************************)
(* jsonpatch.applyPatch(document, patch, undefined, false): the RFC 6902   *)
(* applier the tests run the lowered list through.  It works on a copy of  *)
(* the document and applies the entries in list order.                     *)
(***************************************************************************)
\* the document after an entry that could not be applied
ApplyError == [k |-> "error", s |-> "", v |-> <<>>]
null == [k |-> "null", s |-> "", v |-> <<>>]

\* the reference tokens of a pointer: the text between the "/" characters
RECURSIVE splitPointer(_, _, _)
splitPointer(s, cur, acc) ==
  IF s = <<>> THEN Append(acc, cur)
  ELSE IF Head(s) = "/" THEN splitPointer(Tail(s), <<>>, Append(acc, cur))
       ELSE splitPointer(Tail(s), Append(cur, Head(s)), acc)

\* s.replace(/<c1><c2>/g, r) for a two-character pattern
RECURSIVE replacePair(_, _, _, _)
replacePair(s, c1, c2, r) ==
  IF Len(s) < 2 THEN s
  ELSE IF s[1] = c1 /\ s[2] = c2
       THEN <<r>> \o replacePair(SubSeq(s, 3, Len(s)), c1, c2, r)
       ELSE <<s[1]>> \o replacePair(Tail(s), c1, c2, r)

\* unescapePathComponent: "~1" to "/", then "~0" to "~"
unescapePathComponent(s) == replacePair(replacePair(s, "~", "1", "/"), "~", "0", "~")

\* the keys a pointer names: none for "", which is the whole document
pointerKeys(path) ==
  IF path = <<>> THEN <<>>
  ELSE LET parts == Tail(splitPointer(path, <<>>, <<>>))
       IN  [i \in 1..Len(parts) |-> unescapePathComponent(parts[i])]

DigitValue(c) == CHOOSE d \in 0..9 : Digits[d + 1] = c

IsDigits(s) == Len(s) > 0 /\ \A i \in 1..Len(s) : \E d \in 0..9 : Digits[d + 1] = s[i]

RECURSIVE parseIndex(_, _)
parseIndex(s, acc) ==
  IF s = <<>> THEN acc ELSE parseIndex(Tail(s), acc * 10 + DigitValue(Head(s)))

RECURSIVE applyAt(_, _, _)
applyAt(d, keys, entry) ==
  IF keys = <<>>
  THEN IF entry.op = "remove" THEN null ELSE entry.value
  ELSE IF d.k = "object"
       THEN LET name == StrKey(Head(keys))
            IN  IF Len(keys) = 1
                THEN IF entry.op = "remove" THEN DeleteProp(d, name)
                     ELSE SetProp(d, name, entry.value)
                ELSE IF ~hasOwnProperty(d, name) THEN ApplyError
                     ELSE LET sub == applyAt(GetProp(d, name), Tail(keys), entry)
                          IN  IF sub = ApplyError THEN ApplyError
                              ELSE SetProp(d, name, sub)
       ELSE IF d.k = "array"
            THEN IF ~(IsDigits(Head(keys)) \/ (Head(keys) = <<"-">> /\ Len(keys) = 1))
                 THEN ApplyError
                 ELSE LET index == IF Head(keys) = <<"-">> THEN Len(d.v)
                                   ELSE parseIndex(Head(keys), 0)
                      IN  IF Len(keys) = 1
                          THEN CASE entry.op = "add" -> SpliceInsert(d, index, entry.value)
                                 [] entry.op = "remove" -> SpliceRemove(d, index)
                                 [] entry.op = "replace" -> SetIndex(d, index, entry.value)
                          ELSE IF index >= Len(d.v) THEN ApplyError
                               ELSE LET sub == applyAt(d.v[index + 1], Tail(keys), entry)
                                    IN  IF sub = ApplyError THEN ApplyError
                                        ELSE SetIndex(d, index, sub)
            ELSE ApplyError

applyOperation(d, entry) ==
  IF d = ApplyError THEN ApplyError ELSE applyAt(d, pointerKeys(entry.path), entry)

RECURSIVE applyPatch(_, _)
applyPatch(d, entries) ==
  IF entries = <<>> THEN d
  ELSE applyPatch(applyOperation(d, Head(entries)), Tail(entries))

(***************************************************************************)
(* DiffJson (src/src/DiffJson.ts): the two values are encoded and the      *)
(* encoded documents compared and patched with jsonpatch.                  *)
(***************************************************************************)
\* S.NumberFromString: a transformation of string into number
numberFromString == [_tag |-> "Transform", from |-> stringKeyword, to |-> numberKeyword]

\* String(n) of the numbers of the model
numberToString(n) ==
  CASE n = NaN -> Str("NaN")
    [] n \in {PlusZero, MinusZero} -> Str("0")
    [] n = One -> Str("1")

\* the document an encode or decode that fails leaves
ParseError == [k |-> "error", s |-> "parse", v |-> <<>>]

\* parsing the text of a number
stringToNumber(x) ==
  CASE x = Str("NaN") -> NaN
    [] x = Str("0") -> PlusZero
    [] x = Str("1") -> One
    [] OTHER -> ParseError

\* S.encode(schema)(a) when forward, S.decode(schema)(i) when not: the
\* fields and elements of a struct, record, tuple or array one by one, a
\* NumberFromString through String or the number parser, every other leaf
\* as it is; decoding checks the kind of a number leaf
RECURSIVE convert(_, _, _)
convert(a, x, forward) ==
  CASE a._tag = "Transform" ->
         IF forward THEN (IF x.k = "number" THEN numberToString(x) ELSE ParseError)
         ELSE stringToNumber(x)
    [] a._tag = "NumberKeyword" -> IF x.k = "number" THEN x ELSE ParseError
    [] a._tag = "Refinement" -> convert(a.from, x, forward)
    [] a._tag = "TypeLiteral" ->
         IF x.k # "object" THEN ParseError
         ELSE LET typeOf(key) ==
                    IF key \in expectedKeys(a)
                    THEN a.propertySignatures[
                           CHOOSE i \in 1..Len(a.propertySignatures) :
                             a.propertySignatures[i].name = key].type
                    ELSE a.indexSignatures[1].type
                  vs == [i \in 1..Len(x.v) |->
                           [key |-> x.v[i].key, val |-> convert(typeOf(x.v[i].key), x.v[i].val, forward)]]
              IN  IF \E i \in 1..Len(vs) : vs[i].val = ParseError THEN ParseError
                  ELSE Obj("", vs)
    [] a._tag = "Tuple" ->
         IF x.k # "array" THEN ParseError
         ELSE LET typeOf(i) == IF i <= Len(a.elements) THEN a.elements[i].type ELSE a.rest[1]
                  vs == [i \in 1..Len(x.v) |-> convert(typeOf(i), x.v[i], forward)]
              IN  IF \E i \in 1..Len(vs) : vs[i] = ParseError THEN ParseError
                  ELSE Arr("", vs)
    [] OTHER -> x

encode(schema, a) == convert(schema, a, TRUE)
decode(schema, i) == IF i = ApplyError THEN ParseError ELSE convert(schema, i, FALSE)

\* JSON.parse(JSON.stringify(x)): NaN becomes null, -0 becomes 0, undefined
\* becomes null in an array and drops its key in an object
RECURSIVE jsonClone(_)
jsonClone(x) ==
  CASE x.k = "array" ->
         Arr("", [i \in 1..Len(x.v) |->
                    IF x.v[i] = undefined THEN null ELSE jsonClone(x.v[i])])
    [] x.k = "object" ->
         LET Defined(e) == ~e.key.sym /\ e.val # undefined
             es == SelectSeq(x.v, Defined)
         IN  Obj("", [i \in 1..Len(es) |-> [key |-> es[i].key, val |-> jsonClone(es[i].val)]])
    [] x = NaN -> null
    [] x = MinusZero -> PlusZero
    [] OTHER -> x

\* _deepClone of jsonpatch: objects through JSON, undefined to null
deepClone(x) ==
  CASE IsContainer(x) -> jsonClone(x)
    [] x = undefined -> null
    [] OTHER -> x

\* _objectKeys: the indices of an array, the own string keys of an object
objectKeys(x) ==
  IF x.k = "array" THEN [i \in 1..Len(x.v) |-> String(i - 1)]
  ELSE LET es == SelectSeq(x.v, IsStrEntry) IN [i \in 1..Len(es) |-> es[i].key.n]

hasOwn(x, key) ==
  IF x.k = "array" THEN IsDigits(key) /\ parseIndex(key, 0) < Len(x.v)
  ELSE hasOwnProperty(x, StrKey(key))

getOwn(x, key) ==
  IF x.k = "array" THEN GetIndex(x, parseIndex(key, 0)) ELSE GetProp(x, StrKey(key))

\* _generate(mirror, obj, patches, path) of jsonpatch.compare: the keys of
\* mirror from last to first (recursion into containers of the same kind,
\* replace where the two values are not ===, remove where obj lacks the
\* key), then the add entries of the keys only obj has
RECURSIVE generate(_, _, _, _)
RECURSIVE oldKeysLoop(_, _, _, _, _)
oldKeysLoop(mirror, obj, path, t, acc) ==
  IF t < 1 THEN acc
  ELSE LET key == objectKeys(mirror)[t]
           oldVal == getOwn(mirror, key)
           newVal == getOwn(obj, key)
           here == path \o escapeSegment(key)
           next ==
             IF hasOwn(obj, key)
                  /\ ~(newVal = undefined /\ oldVal # undefined /\ obj.k # "array")
             THEN IF IsContainer(oldVal) /\ IsContainer(newVal) /\ oldVal.k = newVal.k
                  THEN [acc EXCEPT !.patches = generate(oldVal, newVal, here, @)]
                  ELSE IF ~StrictEq(oldVal, newVal)
                       THEN [acc EXCEPT !.patches =
                               Append(@, [op |-> "replace", path |-> here,
                                          value |-> deepClone(newVal)])]
                       ELSE acc
             ELSE IF (mirror.k = "array") = (obj.k = "array")
                  THEN [patches |-> Append(acc.patches, [op |-> "remove", path |-> here]),
                        deleted |-> TRUE]
                  ELSE [acc EXCEPT !.patches =
                          Append(@, [op |-> "replace", path |-> path, value |-> obj])]
       IN  oldKeysLoop(mirror, obj, path, t - 1, next)

RECURSIVE newKeysLoop(_, _, _, _, _)
newKeysLoop(mirror, obj, path, t, patches) ==
  IF t > Len(objectKeys(obj)) THEN patches
  ELSE LET key == objectKeys(obj)[t]
       IN  newKeysLoop(mirror, obj, path, t + 1,
             IF ~hasOwn(mirror, key) /\ getOwn(obj, key) # undefined
             THEN Append(patches, [op |-> "add", path |-> path \o escapeSegment(key),
                                   value |-> deepClone(getOwn(obj, key))])
             ELSE patches)

generate(mirror, obj, path, patches) ==
  LET old == oldKeysLoop(mirror, obj, path, Len(objectKeys(mirror)),
                         [patches |-> patches, deleted |-> FALSE])
  IN  IF ~old.deleted /\ Len(objectKeys(obj)) = Len(objectKeys(mirror)) THEN old.patches
      ELSE newKeysLoop(mirror, obj, path, 1, old.patches)

\* jsonpatch.compare(tree1, tree2)
jsonpatchCompare(tree1, tree2) == generate(tree1, tree2, <<>>, <<>>)

\* fromSchema(schema).compare(from, to)
compare(schema, f, t) ==
  LET ifrom == encode(schema, f)
      ito == encode(schema, t)
  IN  [schema |-> schema,
       patch |-> jsonpatchCompare(ifrom, ito),
       inverse |-> jsonpatchCompare(ito, ifrom)]

inverse(p) == [schema |-> p.schema, patch |-> p.inverse, inverse |-> p.patch]

\* applyPatch(patch)(a) of DiffJson
applyPatchJson(p, a) == decode(p.schema, applyPatch(encode(p.schema, a), p.patch))

(***************************************************************************)
(* The shapes and the values the model runs the engine on.                 *)
(***************************************************************************)
keyA == StrKey(<<"a">>)
keyB == StrKey(<<"b">>)
keyC == StrKey(<<"c">>)
keySlash == StrKey(<<"/">>)
keyTilde == StrKey(<<"~", "1">>)
symA == SymKey(<<"@", "a">>)

Numbers == {NaN, PlusZero, MinusZero, One}
Strings == {Str("x"), Str("y")}
Booleans == {Bool("true"), Bool("false")}
\* values of the unknown shape: primitives, and two distinct empty objects
Unknowns == {NaN, PlusZero, MinusZero, Str("x"), undefined, Obj("r1", <<>>), Obj("r2", <<>>)}

\* the own keys an index signature with this parameter puts into a value
IndexKeys(parameter) ==
  IF parameter._tag = "SymbolKeyword" THEN {symA} ELSE {keyA, keySlash}

required(name, type) == propertySignature(name, type, FALSE)
optional(name, type) == propertySignature(name, type, TRUE)
struct(pss) == typeLiteral(pss, <<>>)
record(parameter, type) == typeLiteral(<<>>, <<indexSignature(parameter, type)>>)
array(type) == tuple(<<>>, <<type>>)

LeafShapes == {numberKeyword, stringKeyword, booleanKeyword, unknownKeyword}

\* leaves, refinements, structs, records and tuples of required elements
FixedShapes ==
  LeafShapes \cup
  { refinement(numberKeyword),
    struct(<<required(keyA, stringKeyword)>>),
    struct(<<required(symA, stringKeyword)>>),
    struct(<<optional(keyA, stringKeyword)>>),
    struct(<<required(keyA, stringKeyword), required(keyB, numberKeyword)>>),
    struct(<<required(keyA, stringKeyword), optional(keyB, numberKeyword)>>),
    struct(<<optional(keyTilde, unknownKeyword)>>),
    struct(<<required(keyA, stringKeyword),
             required(keyB, struct(<<required(keyC, numberKeyword)>>))>>),
    record(stringKeyword, stringKeyword),
    record(symbolKeyword, stringKeyword),
    typeLiteral(<<>>, <<indexSignature(stringKeyword, stringKeyword),
                        indexSignature(symbolKeyword, stringKeyword)>>),
    typeLiteral(<<required(keyA, stringKeyword)>>,
                <<indexSignature(stringKeyword, numberKeyword)>>),
    record(stringKeyword, struct(<<optional(keyB, booleanKeyword)>>)),
    tuple(<<>>, <<>>),
    tuple(<<element(stringKeyword, FALSE)>>, <<>>),
    tuple(<<element(stringKeyword, FALSE), element(numberKeyword, FALSE)>>, <<>>),
    struct(<<required(keyA, tuple(<<element(stringKeyword, FALSE),
                                   element(booleanKeyword, FALSE)>>, <<>>))>>),
    struct(<<required(keyA, tuple(<<element(struct(<<optional(keyB, booleanKeyword)>>),
                                           FALSE)>>, <<>>))>>) }

\* tuples with optional elements and variable-length arrays
SequenceShapes ==
  { tuple(<<element(stringKeyword, TRUE)>>, <<>>),
    tuple(<<element(stringKeyword, TRUE), element(numberKeyword, TRUE)>>, <<>>),
    tuple(<<element(stringKeyword, FALSE), element(stringKeyword, TRUE),
            element(stringKeyword, TRUE)>>, <<>>),
    array(stringKeyword),
    struct(<<required(keyA, stringKeyword), required(keyB, array(stringKeyword))>>) }

\* the self-referential shape of "lazy (manual)", for which compilation returns
LazyShapes == {lazy("A")}

Shapes == FixedShapes \cup SequenceShapes \cup LazyShapes

\* sequences of at most n values of vals
RECURSIVE SeqsUpTo(_, _)
SeqsUpTo(vals, n) ==
  IF n = 0 THEN {<<>>}
  ELSE {<<>>} \cup {<<v>> \o r : v \in vals, r \in SeqsUpTo(vals, n - 1)}

\* entry sequences over pairwise distinct keys of keys, holding values of vals
RECURSIVE EntrySeqs(_, _)
EntrySeqs(keys, vals) ==
  {<<>>} \cup
  UNION {{<<[key |-> key, val |-> v]>> \o r : v \in vals, r \in EntrySeqs(keys \ {key}, vals)}
         : key \in keys}

\* the values of a shape, as its Arbitrary draws them: no key outside the shape
RECURSIVE ValuesOf(_)

RECURSIVE ElementSeqs(_, _)
ElementSeqs(a, i) ==
  IF i > Len(a.elements)
  THEN IF a.rest = <<>> THEN {<<>>} ELSE SeqsUpTo(ValuesOf(a.rest[1]), MaxLen)
  ELSE {<<v>> \o r : v \in ValuesOf(a.elements[i].type), r \in ElementSeqs(a, i + 1)}
       \cup (IF a.elements[i].isOptional THEN {<<>>} ELSE {})

RECURSIVE PropertySeqs(_, _)
PropertySeqs(a, i) ==
  IF i > Len(a.propertySignatures) THEN {<<>>}
  ELSE LET ps == a.propertySignatures[i]
           here == {<<[key |-> ps.name, val |-> v]>> : v \in ValuesOf(ps.type)}
                   \cup (IF ps.isOptional THEN {<<>>} ELSE {})
       IN  {h \o r : h \in here, r \in PropertySeqs(a, i + 1)}

RECURSIVE IndexSeqs(_, _)
IndexSeqs(a, i) ==
  IF i > Len(a.indexSignatures) THEN {<<>>}
  ELSE LET is == a.indexSignatures[i]
           keys == IndexKeys(is.parameter) \ expectedKeys(a)
       IN  {h \o r : h \in EntrySeqs(keys, ValuesOf(is.type)), r \in IndexSeqs(a, i + 1)}

\* own keys are enumerated strings first, then symbols
OwnKeyOrder(es) == SelectSeq(es, IsStrEntry) \o SelectSeq(es, IsSymEntry)

\* values of the shape A = { a: string, as: array(A) }: those whose as is
\* empty, and those whose as holds one of them; every array and object is a
\* fresh allocation
LeafAs == {Obj("", <<[key |-> keyA, val |-> v], [key |-> StrKey(<<"a", "s">>), val |-> Arr("", <<>>)]>>)
             : v \in Strings}
ValuesOfA ==
  LeafAs \cup
    {Obj("", <<[key |-> keyA, val |-> v], [key |-> StrKey(<<"a", "s">>), val |-> Arr("", <<e>>)]>>)
       : v \in Strings, e \in LeafAs}

ValuesOf(a) ==
  CASE a._tag = "NumberKeyword" -> Numbers
    [] a._tag = "Lazy" -> ValuesOfA
    [] a._tag = "Transform" -> Numbers
    [] a._tag = "StringKeyword" -> Strings
    [] a._tag = "BooleanKeyword" -> Booleans
    [] a._tag = "UnknownKeyword" -> Unknowns
    [] a._tag = "Refinement" -> ValuesOf(a.from) \ {NaN}
    [] a._tag = "Tuple" -> {Arr("", es) : es \in ElementSeqs(a, 1)}
    [] a._tag = "TypeLiteral" ->
         {Obj("", OwnKeyOrder(p \o x)) : p \in PropertySeqs(a, 1), x \in IndexSeqs(a, 1)}

\* the same object with its own keys inserted in the opposite order
ReverseKeys(x) ==
  IF x.k = "object"
  THEN Obj(x.s, OwnKeyOrder([i \in 1..Len(x.v) |-> x.v[Len(x.v) + 1 - i]]))
  ELSE x

\* the values of a shape, their own keys in declaration order or not
ValuesInAnyOrder(a) == ValuesOf(a) \cup {ReverseKeys(x) : x \in ValuesOf(a)}

(***************************************************************************)
(* Operation trees a caller builds with the exported constructors.         *)
(***************************************************************************)
OpValues == {Str("x"), undefined}
OpKeys == {keyA, symA}
OpIndexes == {0, 1}

LeafOps ==
  {replace(f, t) : f \in OpValues, t \in OpValues}
    \cup {add(v) : v \in OpValues} \cup {remove(v) : v \in OpValues}

\* the nested operations of exactly n nodes
RECURSIVE NestedOps(_)

\* the non-empty entry lists over keys whose operations have n nodes in all
RECURSIVE EntryLists(_, _)
EntryLists(keys, n) ==
  UNION {{<<[key |-> key, op |-> o]>> \o r :
            key \in keys, o \in NestedOps(m),
            r \in (IF m = n THEN {<<>>} ELSE EntryLists(keys, n - m))}
         : m \in 1..n}

NestedOps(n) ==
  IF n = 1 THEN LeafOps
  ELSE {objectOps(es) : es \in EntryLists(OpKeys, n - 1)}
         \cup {arrayOps(es) : es \in EntryLists(OpIndexes, n - 1)}

\* three containers deep, as the diff of a struct in a struct in a struct is:
\* a container holding a container, which holds a leaf and a container of one
\* leaf, and then a leaf of its own
container(kind, es) == IF kind = "ObjectOps" THEN objectOps(es) ELSE arrayOps(es)
keyFor(kind, name, index) == IF kind = "ObjectOps" THEN name ELSE index
DeepLeaves ==
  {replace(Str("x"), Str("y")), add(Str("x")), remove(Str("x")),
   remove(Obj("r1", <<[key |-> keyA, val |-> Str("x")]>>))}
DeepTrees ==
  {container(k1,
     <<[key |-> keyFor(k1, keyB, 0),
        op |-> container(k2,
                 <<[key |-> keyFor(k2, keyC, 1), op |-> l1],
                   [key |-> keyFor(k2, keySlash, 10),
                    op |-> container(k3, <<[key |-> keyFor(k3, keyTilde, 2), op |-> l2]>>)]>>)],
       [key |-> keyFor(k1, keyA, 1), op |-> l3]>>)
     : k1 \in {"ObjectOps", "ArrayOps"}, k2 \in {"ObjectOps", "ArrayOps"},
       k3 \in {"ObjectOps", "ArrayOps"},
       l1 \in DeepLeaves, l2 \in DeepLeaves, l3 \in DeepLeaves}

\* the operations (Op) of at most n nodes
OpTrees(n) ==
  {identical} \cup {replace(f, t) : f \in OpValues, t \in OpValues}
    \cup UNION {{o \in NestedOps(m) : o._tag \in {"ObjectOps", "ArrayOps"}} : m \in 2..n}

(***************************************************************************)
(* The state: a shape, two values of it, and what the calls on them have   *)
(* returned so far.                                                        *)
(***************************************************************************)
\* the second call of a compiled differ has not happened yet
NoCall == [_tag |-> "None"]

Unset ==
  /\ out = NoValue
  /\ rev = make(NoOp)
  /\ rev2 = make(NoOp)
  /\ back = NoValue
  /\ jp = NoEither
  /\ doc = NoValue
  /\ stack = <<>>
  /\ compiled = "done"
  /\ again = NoCall

Init ==
  /\ ast \in Shapes
  /\ from \in ValuesInAnyOrder(ast)
  /\ to \in ValuesInAnyOrder(ast)
  /\ patch = make(NoOp)
  /\ Unset

\* const patch = differ(from, to)
Differ ==
  /\ patch = make(NoOp)
  /\ patch' = fromSchema(ast, from, to)
  /\ UNCHANGED <<ast, from, to, out, rev, rev2, back, jp, doc, stack, compiled, again>>

\* Diff.runPatch(patch)(from)
RunPatch ==
  /\ patch # make(NoOp)
  /\ out = NoValue
  /\ out' = runPatch(patch, from)
  /\ UNCHANGED <<ast, from, to, patch, rev, rev2, back, jp, doc, stack, compiled, again>>

\* Diff.reverse(patch)
Reverse ==
  /\ patch # make(NoOp)
  /\ rev = make(NoOp)
  /\ rev' = reverse(patch)
  /\ UNCHANGED <<ast, from, to, patch, out, rev2, back, jp, doc, stack, compiled, again>>

\* Diff.reverse(Diff.reverse(patch))
ReverseAgain ==
  /\ rev # make(NoOp)
  /\ rev2 = make(NoOp)
  /\ rev2' = reverse(rev)
  /\ UNCHANGED <<ast, from, to, patch, out, rev, back, jp, doc, stack, compiled, again>>

\* Diff.runPatch(Diff.reverse(patch))(to)
RunReverse ==
  /\ rev # make(NoOp)
  /\ back = NoValue
  /\ back' = runPatch(rev, to)
  /\ UNCHANGED <<ast, from, to, patch, out, rev, rev2, jp, doc, stack, compiled, again>>

\* const jp = Diff.getJSONPatch(patch.op)
GetJSONPatch ==
  /\ patch # make(NoOp)
  /\ jp = NoEither
  /\ jp' = getJSONPatch(patch.op)
  /\ UNCHANGED <<ast, from, to, patch, out, rev, rev2, back, doc, stack, compiled, again>>

\* if (isJson(from) && isJson(to) && Either.isRight(jp))
\*   jsonpatch.applyPatch(from, jp.right, undefined, false).newDocument
ApplyJSONPatch ==
  /\ jp._tag = "Right"
  /\ IsJson(from)
  /\ IsJson(to)
  /\ doc = NoValue
  /\ doc' = applyPatch(from, jp.right)
  /\ UNCHANGED <<ast, from, to, patch, out, rev, rev2, back, jp, stack, compiled, again>>

Next ==
  \/ Differ
  \/ RunPatch
  \/ Reverse
  \/ ReverseAgain
  \/ RunReverse
  \/ GetJSONPatch
  \/ ApplyJSONPatch

Spec == Init /\ [][Next]_vars

(***************************************************************************)
(* The same calls on a patch the caller has built by hand.                 *)
(***************************************************************************)
InitOps ==
  /\ ast = unknownKeyword
  /\ from = undefined
  /\ to = undefined
  /\ patch \in {make(p) : p \in OpTrees(MaxNodes) \cup DeepTrees}
  /\ Unset

NextOps ==
  \/ Reverse
  \/ ReverseAgain
  \/ GetJSONPatch

SpecOps == InitOps /\ [][NextOps]_vars

(***************************************************************************)
(* Lowering of trees whose keys hold the characters a pointer escapes: the *)
(* way a caller reaches pointer, which is not exported.                    *)
(***************************************************************************)
PointerChars == {"~", "/", "0", "1"}

\* the keys of at most MaxLen characters, the empty key included
Segments == SeqsUpTo(PointerChars, MaxLen)

\* ObjectOps nested along the keys of path, ending in a Remove
RECURSIVE chain(_)
chain(path) ==
  IF path = <<>> THEN remove(undefined)
  ELSE objectOps(<<[key |-> StrKey(Head(path)), op |-> chain(Tail(path))]>>)

\* a root Replace (the empty path) and the chains of one and of two keys
PointerTrees ==
  {replace(Str("x"), Str("y"))}
    \cup {chain(<<s1>>) : s1 \in Segments}
    \cup {chain(<<s1, s2>>) : s1 \in Segments, s2 \in Segments}

InitPointer ==
  /\ ast = unknownKeyword
  /\ from = undefined
  /\ to = undefined
  /\ patch \in {make(p) : p \in PointerTrees}
  /\ Unset

NextPointer == GetJSONPatch

SpecPointer == InitPointer /\ [][NextPointer]_vars

(***************************************************************************)
(* runPatch on an ArrayOps a caller has built for an array it holds.       *)
(***************************************************************************)
\* the arrays <<"p", "q", ...>> of two to MaxLen + 1 distinct strings
Letters == <<"p", "q", "r", "s", "t">>
ArrayDocs == {Arr("", [i \in 1..n |-> Str(Letters[i])]) : n \in 2..(MaxLen + 1)}

\* Add, Remove and Replace on the element at index i of f
ArrayLeafOps(f, i) ==
  {add(Str("x")), remove(GetIndex(f, i)), replace(GetIndex(f, i), Str("y"))}

\* the ArrayOps of one entry and of two entries with distinct indices of f,
\* in either order
ArrayPatches(f) ==
  LET indexes == 0..(Len(f.v) - 1)
  IN  UNION {{arrayOps(<<[key |-> i, op |-> o]>>) : o \in ArrayLeafOps(f, i)} : i \in indexes}
        \cup UNION {{arrayOps(<<[key |-> i, op |-> o1], [key |-> j, op |-> o2]>>)
                       : o1 \in (IF i = j THEN {} ELSE ArrayLeafOps(f, i)),
                         o2 \in ArrayLeafOps(f, j)}
                    : i \in indexes, j \in indexes}

InitArrayOps ==
  /\ ast = array(stringKeyword)
  /\ from \in ArrayDocs
  /\ to = undefined
  /\ patch \in {make(p) : p \in ArrayPatches(from)}
  /\ Unset

NextArrayOps == RunPatch

SpecArrayOps == InitArrayOps /\ [][NextArrayOps]_vars

(***************************************************************************)
(* Compilation: fromSchema(schema) as the calls of go it makes.            *)
(***************************************************************************)
\* the self-referential shapes: the two of the tests, a tuple whose optional
\* element is the tuple, a record of itself, and a refinement of a lazy shape
RecursiveShapes ==
  {lazy("A"), thunk("User"), lazy("Pair"), lazy("Tree"), refinement(lazy("A")),
   array(lazy("User"))}

InitCompile ==
  /\ ast \in Shapes \cup RecursiveShapes
  /\ from = undefined
  /\ to = undefined
  /\ patch = make(NoOp)
  /\ out = NoValue
  /\ rev = make(NoOp)
  /\ rev2 = make(NoOp)
  /\ back = NoValue
  /\ jp = NoEither
  /\ doc = NoValue
  /\ stack = <<frame(ast)>>
  /\ compiled = "running"
  /\ again = NoCall

\* const differ = Diff.fromSchema(schema), one call or return of go at a time
Go ==
  /\ compiled = "running"
  /\ stack' = goStep(stack).stack
  /\ compiled' = goStep(stack).compiled
  /\ UNCHANGED <<ast, from, to, patch, out, rev, rev2, back, jp, doc, again>>

NextCompile == Go

SpecCompile == InitCompile /\ [][NextCompile]_vars

(***************************************************************************)
(* One compiled differ called twice, the second call interleaved with the  *)
(* calls on the result of the first.                                       *)
(***************************************************************************)
CallShapes ==
  { struct(<<required(keyA, stringKeyword), optional(keyB, numberKeyword)>>),
    typeLiteral(<<required(keyA, stringKeyword)>>,
                <<indexSignature(stringKeyword, numberKeyword)>>),
    tuple(<<element(stringKeyword, FALSE), element(numberKeyword, FALSE)>>, <<>>) }

InitCalls ==
  /\ ast \in CallShapes
  /\ from \in ValuesOf(ast)
  /\ to \in ValuesOf(ast)
  /\ patch = make(NoOp)
  /\ Unset

\* differ(f, t) once more, on any pair, and getJSONPatch on what it returns
DifferAgain ==
  /\ patch # make(NoOp)
  /\ again = NoCall
  /\ \E f \in ValuesOf(ast), t \in ValuesOf(ast) :
       again' = [_tag |-> "Call", from |-> f, to |-> t,
                 patch |-> fromSchema(ast, f, t),
                 jp |-> getJSONPatch(fromSchema(ast, f, t).op)]
  /\ UNCHANGED <<ast, from, to, patch, out, rev, rev2, back, jp, doc, stack, compiled>>

NextCalls ==
  \/ Differ
  \/ RunPatch
  \/ Reverse
  \/ RunReverse
  \/ GetJSONPatch
  \/ DifferAgain

SpecCalls == InitCalls /\ [][NextCalls]_vars

(***************************************************************************)
(* DiffJson: compare, applyPatch and inverse on a schema whose encoded     *)
(* form is a JSON object or array.                                         *)
(***************************************************************************)
JsonShapes ==
  { struct(<<required(keyA, numberKeyword)>>),
    struct(<<required(keyA, numberFromString)>>),
    struct(<<required(keyA, stringKeyword), optional(keyB, numberKeyword)>>),
    struct(<<required(keyA, array(numberKeyword))>>),
    record(stringKeyword, stringKeyword),
    tuple(<<element(stringKeyword, FALSE), element(numberKeyword, FALSE)>>, <<>>) }

\* NaN is not a JSON number
RECURSIVE HasNaN(_)
HasNaN(x) ==
  CASE x.k = "array" -> \E i \in 1..Len(x.v) : HasNaN(x.v[i])
    [] x.k = "object" -> \E i \in 1..Len(x.v) : HasNaN(x.v[i].val)
    [] OTHER -> x = NaN

JsonValuesOf(a) == {x \in ValuesOf(a) : ~HasNaN(x)}

InitJson ==
  /\ ast \in JsonShapes
  /\ from \in JsonValuesOf(ast)
  /\ to \in JsonValuesOf(ast)
  /\ patch = make(NoOp)
  /\ Unset

\* const patch = differ.compare(from, to)
Compare ==
  /\ patch = make(NoOp)
  /\ patch' = compare(ast, from, to)
  /\ UNCHANGED <<ast, from, to, out, rev, rev2, back, jp, doc, stack, compiled, again>>

\* Diff.applyPatch(patch)(from)
ApplyForward ==
  /\ patch # make(NoOp)
  /\ out = NoValue
  /\ out' = applyPatchJson(patch, from)
  /\ UNCHANGED <<ast, from, to, patch, rev, rev2, back, jp, doc, stack, compiled, again>>

\* Diff.inverse(patch)
Inverse ==
  /\ patch # make(NoOp)
  /\ rev = make(NoOp)
  /\ rev' = inverse(patch)
  /\ UNCHANGED <<ast, from, to, patch, out, rev2, back, jp, doc, stack, compiled, again>>

\* Diff.applyPatch(Diff.inverse(patch))(to)
ApplyInverse ==
  /\ rev # make(NoOp)
  /\ back = NoValue
  /\ back' = applyPatchJson(rev, to)
  /\ UNCHANGED <<ast, from, to, patch, out, rev, rev2, jp, doc, stack, compiled, again>>

NextJson ==
  \/ Compare
  \/ ApplyForward
  \/ Inverse
  \/ ApplyInverse

SpecJson == InitJson /\ [][NextJson]_vars

(***************************************************************************)
(* The differ of a refinement and the differ of its base, called on the    *)
(* same pair of values of the base, whether or not they satisfy the        *)
(* refinement.                                                             *)
(***************************************************************************)
RefinementShapes ==
  {refinement(base) :
     base \in {numberKeyword, stringKeyword, refinement(numberKeyword),
               struct(<<required(keyA, stringKeyword), required(keyB, numberKeyword)>>),
               struct(<<required(keyA, refinement(numberKeyword))>>),
               record(stringKeyword, stringKeyword),
               tuple(<<element(stringKeyword, FALSE), element(numberKeyword, FALSE)>>, <<>>)}}

InitRefinement ==
  /\ ast \in RefinementShapes
  /\ from \in ValuesOf(ast.from)
  /\ to \in ValuesOf(ast.from)
  /\ patch = make(NoOp)
  /\ Unset

\* Diff.fromSchema(base)(from, to), base being what the refinement refines
DifferBase ==
  /\ again = NoCall
  /\ again' = [_tag |-> "Base", patch |-> fromSchema(ast.from, from, to)]
  /\ UNCHANGED <<ast, from, to, patch, out, rev, rev2, back, jp, doc, stack, compiled>>

NextRefinement ==
  \/ Differ
  \/ DifferBase
  \/ RunPatch

SpecRefinement == InitRefinement /\ [][NextRefinement]_vars

(***************************************************************************)
(* runPatch on the entries of a differ's ObjectOps taken in another order. *)
(***************************************************************************)
\* { [x: string]: string, [x: `a${string}`]: string }: a record extended by a
\* record whose keys are a template literal
overlappingRecord ==
  typeLiteral(<<>>, <<indexSignature(stringKeyword, stringKeyword),
                      indexSignature(templateLiteral, stringKeyword)>>)

SiblingShapes ==
  { struct(<<required(keyA, stringKeyword), optional(keyB, numberKeyword)>>),
    typeLiteral(<<required(keyA, stringKeyword)>>,
                <<indexSignature(stringKeyword, numberKeyword)>>),
    record(stringKeyword, stringKeyword),
    typeLiteral(<<>>, <<indexSignature(stringKeyword, stringKeyword),
                        indexSignature(symbolKeyword, stringKeyword)>>),
    overlappingRecord }

\* the values of the extended record are those of the record of strings
SiblingValues(a) ==
  IF a = overlappingRecord THEN ValuesOf(record(stringKeyword, stringKeyword))
  ELSE ValuesOf(a)

\* the orders the entries of ops can be listed in
EntryOrders(ops) ==
  {[i \in 1..Len(ops) |-> ops[g[i]]] :
     g \in {h \in [1..Len(ops) -> 1..Len(ops)] :
              \A i \in 1..Len(ops) : \A j \in 1..Len(ops) : h[i] = h[j] => i = j}}

InitSiblings ==
  /\ ast \in SiblingShapes
  /\ from \in SiblingValues(ast)
  /\ to \in SiblingValues(ast)
  /\ patch = make(NoOp)
  /\ Unset

\* Diff.runPatch(Diff.make(Diff.objectOps(entries)))(from), entries being
\* those of patch in some order
RunPermuted ==
  /\ patch.op._tag = "ObjectOps"
  /\ again = NoCall
  /\ \E entries \in EntryOrders(patch.op.ops) :
       again' = [_tag |-> "Permuted", patch |-> make(objectOps(entries)),
                 out |-> runPatch(make(objectOps(entries)), from)]
  /\ UNCHANGED <<ast, from, to, patch, out, rev, rev2, back, jp, doc, stack, compiled>>

NextSiblings ==
  \/ Differ
  \/ RunPatch
  \/ RunPermuted

SpecSiblings == InitSiblings /\ [][NextSiblings]_vars

(***************************************************************************)
(* runPatch on values a caller holds references to: an object and an array *)
(* that each hold a string, an object and (the object) a symbol key.       *)
(***************************************************************************)
innerDoc == Obj("r2", <<[key |-> keyC, val |-> Str("x")]>>)

FrameDocs ==
  { Obj("r1", <<[key |-> keyA, val |-> Str("x")], [key |-> keyB, val |-> innerDoc],
                [key |-> symA, val |-> Str("x")]>>),
    Arr("r1", <<Str("x"), innerDoc, Str("y")>>),
    Str("x") }

\* the operations on the inner object
InnerOps ==
  {objectOps(<<[key |-> keyC, op |-> o]>>) :
     o \in {replace(Str("x"), Str("y")), remove(Str("x"))}}
    \cup {objectOps(<<[key |-> keyA, op |-> add(Obj("r3", <<>>))]>>)}

\* the nested operations on what f holds at a key or an index
FrameOpsAt(f, tag, key) ==
  LET cur == IF tag = "ObjectOps" THEN GetProp(f, key) ELSE GetIndex(f, key)
  IN  {replace(cur, Str("z")), remove(cur), add(Str("z"))}
        \cup (IF cur = innerDoc THEN InnerOps ELSE {})

\* Identical, a Replace, and the containers of one entry and of two entries
\* with distinct keys, in either order
FramePatches(f) ==
  LET tag == IF f.k = "object" THEN "ObjectOps" ELSE "ArrayOps"
      keys == IF f.k = "object" THEN {keyA, keyB, keyC, symA} ELSE {0, 1, 2}
  IN  {identical, replace(f, Str("z")), replace(f, Obj("r3", <<>>))}
        \cup (IF f.k \in {"object", "array"}
              THEN UNION {{container(tag, <<[key |-> k1, op |-> o1]>>) : o1 \in FrameOpsAt(f, tag, k1)}
                          : k1 \in keys}
                   \cup UNION {{container(tag, <<[key |-> k1, op |-> o1], [key |-> k2, op |-> o2]>>)
                                  : o1 \in (IF k1 = k2 THEN {} ELSE FrameOpsAt(f, tag, k1)),
                                    o2 \in FrameOpsAt(f, tag, k2)}
                               : k1 \in keys, k2 \in keys}
              ELSE {})

InitFrame ==
  /\ ast = unknownKeyword
  /\ from \in FrameDocs
  /\ to = undefined
  /\ patch \in {make(p) : p \in FramePatches(from)}
  /\ Unset

NextFrame ==
  \/ RunPatch
  \/ Reverse

SpecFrame == InitFrame /\ [][NextFrame]_vars

(***************************************************************************)
(* Structs diffed on values that hold keys the struct does not declare     *)
(* (the "excess properties" of the open questions).                        *)
(***************************************************************************)
ExcessShapes ==
  { struct(<<required(keyA, stringKeyword)>>),
    struct(<<required(keyA, stringKeyword), optional(keyB, numberKeyword)>>),
    struct(<<required(keyA, stringKeyword),
             required(keyB, struct(<<required(keyC, numberKeyword)>>))>>) }

\* the value x with, besides, any of a string key and a symbol key
WithExcessKeys(x) ==
  {Obj("", OwnKeyOrder(x.v \o e)) : e \in EntrySeqs({keySlash, symA}, Strings)}

ExcessValues(a) == UNION {WithExcessKeys(x) : x \in ValuesOf(a)}

\* the value x without the keys the struct a does not declare
DeclaredPart(a, x) ==
  LET Declared(e) == e.key \in expectedKeys(a)
  IN  Obj("", SelectSeq(x.v, Declared))

InitExcess ==
  /\ ast \in ExcessShapes
  /\ from \in ExcessValues(ast)
  /\ to \in ExcessValues(ast)
  /\ patch = make(NoOp)
  /\ Unset

\* differ on the same two values without their undeclared keys
DifferDeclared ==
  /\ again = NoCall
  /\ again' = [_tag |-> "Declared",
               patch |-> fromSchema(ast, DeclaredPart(ast, from), DeclaredPart(ast, to))]
  /\ UNCHANGED <<ast, from, to, patch, out, rev, rev2, back, jp, doc, stack, compiled>>

NextExcess ==
  \/ Differ
  \/ RunPatch
  \/ DifferDeclared

SpecExcess == InitExcess /\ [][NextExcess]_vars

(***************************************************************************)
(* Properties.                                                             *)
(***************************************************************************)
Diffed == patch # make(NoOp)

\* C1: round trip on fixed-layout shapes: for a shape built from leaves,
\* refinements, structs, records and tuples of required elements,
\* runPatch(fromSchema(shape)(from, to))(from) is structurally equal to to.
RoundTripFixed ==
  (ast \in FixedShapes /\ out # NoValue) => StructEq(out, to)

\* C2: round trip on sequences whose length or content can vary: for a tuple
\* with optional elements and for a variable-length array,
\* runPatch(differ(from, to))(from) is structurally equal to to.
RoundTripSequences ==
  (ast \in SequenceShapes /\ out # NoValue) => StructEq(out, to)

\* C3: reversibility: for every shape and pair,
\* runPatch(reverse(differ(from, to)))(to) is structurally equal to from.
Reversibility ==
  back # NoValue => StructEq(back, from)

\* C4: identity: for every shape and every value a of it, differ(a, a).op is
\* Identical (from = to here means the same value passed twice).
Identity ==
  (Diffed /\ from = to) => patch.op = identical

\* C5: double reversal: for every operation tree p, with Replace, Add, Remove,
\* ObjectOps and ArrayOps nested at any depth, reverse(reverse(p)) equals p.
DoubleReversal ==
  rev2 # make(NoOp) => rev2 = patch

\* an entry of a container of p holds a container that holds an Add
HasNestedAdd(p) ==
  /\ p._tag \in {"ObjectOps", "ArrayOps"}
  /\ \E i \in 1..Len(p.ops) :
       /\ p.ops[i].op._tag \in {"ObjectOps", "ArrayOps"}
       /\ \E j \in 1..Len(p.ops[i].op.ops) : p.ops[i].op.ops[j].op._tag = "Add"

\* reverse has been applied twice to a tree with an Add at depth two
DoubleReversalWitness ==
  rev2 # make(NoOp) /\ HasNestedAdd(patch.op)

\* C6: number leaf: the differ of the number shape returns Identical exactly
\* when the two numbers are the same number (NaN is NaN, +0 is not -0) and
\* Replace(from, to) otherwise.
NumberLeafSemantics ==
  (Diffed /\ ast = numberKeyword) =>
    /\ patch.op = (IF from = to THEN identical ELSE replace(from, to))
    /\ (from = NaN /\ to = NaN) => patch.op = identical
    /\ (from = PlusZero /\ to = MinusZero) => patch.op = replace(PlusZero, MinusZero)
    /\ (from = NaN /\ to = PlusZero) => patch.op = replace(NaN, PlusZero)

\* the number differ has compared +0 with -0
NumberLeafWitness ==
  Diffed /\ ast = numberKeyword /\ from = PlusZero /\ to = MinusZero

\* C7: leaf equality notion: for every leaf kind, not only number, the leaf
\* differ returns Identical exactly when from and to are equal under
\* identity-style equality, and Replace(from, to) otherwise.
LeafEqualityNotion ==
  (Diffed /\ ast \in LeafShapes) =>
    patch.op = (IF ObjectIs(from, to) THEN identical ELSE replace(from, to))

\* the own keys of an object
OwnKeys(a) == {a.v[i].key : i \in 1..Len(a.v)}

\* the shape a key of a struct or record is diffed with: its property
\* signature's, else that of the index signature for keys of its kind
TypeOfKey(a, key) ==
  IF key \in expectedKeys(a)
  THEN a.propertySignatures[
         CHOOSE i \in 1..Len(a.propertySignatures) : a.propertySignatures[i].name = key].type
  ELSE a.indexSignatures[
         CHOOSE i \in 1..Len(a.indexSignatures) :
           (a.indexSignatures[i].parameter._tag = "SymbolKeyword") = key.sym].type

\* the keys the claim speaks of
ClaimedKeys(a, f, t) ==
  expectedKeys(a) \cup
    (IF Len(a.indexSignatures) > 0 THEN OwnKeys(f) \cup OwnKeys(t) ELSE {})

\* what the claim has the differ emit for one key: a set of at most one entry
ClaimedEntry(a, key, f, t) ==
  CASE key \in OwnKeys(f) /\ key \in OwnKeys(t) ->
         LET op == differ(TypeOfKey(a, key), GetProp(f, key), GetProp(t, key)).op
         IN  IF op = identical THEN {} ELSE {[key |-> key, op |-> op]}
    [] key \in OwnKeys(f) /\ key \notin OwnKeys(t) ->
         {[key |-> key, op |-> remove(GetProp(f, key))]}
    [] key \notin OwnKeys(f) /\ key \in OwnKeys(t) ->
         {[key |-> key, op |-> add(GetProp(t, key))]}
    [] OTHER -> {}

ClaimedEntries(a, f, t) ==
  UNION {ClaimedEntry(a, key, f, t) : key \in ClaimedKeys(a, f, t)}

\* C8: record/struct diff per key: for every declared field and, with an
\* index signature, every other own key of from or to, the differ emits the
\* recursive diff (when not Identical) for a key of both, Remove(from[key])
\* for a key of from only, Add(to[key]) for a key of to only and nothing
\* otherwise, once per key; the result is ObjectOps of the entries when
\* there is one and Identical otherwise.
RecordDiffPerKey ==
  (Diffed /\ ast._tag = "TypeLiteral") =>
    LET claimed == ClaimedEntries(ast, from, to)
        ops == IF patch.op._tag = "ObjectOps" THEN patch.op.ops ELSE <<>>
    IN  /\ {ops[i] : i \in 1..Len(ops)} = claimed
        /\ Len(ops) = Cardinality(claimed)
        /\ patch.op = (IF claimed # {} THEN objectOps(ops) ELSE identical)

\* a record has been diffed whose from holds a key to lacks and the other
\* way round, and a struct whose from holds undefined under a key to lacks
RecordDiffWitness ==
  /\ Diffed
  /\ ast._tag = "TypeLiteral"
  /\ \/ /\ Len(ast.indexSignatures) > 0
        /\ OwnKeys(from) \ OwnKeys(to) # {}
        /\ OwnKeys(to) \ OwnKeys(from) # {}
        /\ Len(patch.op.ops) = 2
     \/ /\ hasOwnProperty(from, keyTilde)
        /\ GetProp(from, keyTilde) = undefined
        /\ ~hasOwnProperty(to, keyTilde)
        /\ patch.op = objectOps(<<[key |-> keyTilde, op |-> remove(undefined)]>>)

\* C9: JSON-Patch equivalence: for JSON-safe from and to for which
\* getJSONPatch succeeds, applying the lowered entries in list order with an
\* RFC 6902 applier to from yields a document structurally equal to to.
JSONPatchEquivalence ==
  doc # NoValue => StructEq(doc, to)

\* some ObjectOps of the tree p has a key that is not a string
RECURSIVE HasSymbolKey(_)
HasSymbolKey(p) ==
  /\ p._tag \in {"ObjectOps", "ArrayOps"}
  /\ \E i \in 1..Len(p.ops) :
       \/ p._tag = "ObjectOps" /\ p.ops[i].key.sym
       \/ HasSymbolKey(p.ops[i].op)

\* some Replace.to or Add.value of the tree p is not JSON-representable
RECURSIVE HasNonJsonValue(_)
HasNonJsonValue(p) ==
  CASE p._tag = "Replace" -> ~IsJson(p.to)
    [] p._tag = "Add" -> ~IsJson(p.value)
    [] p._tag \in {"ObjectOps", "ArrayOps"} ->
         \E i \in 1..Len(p.ops) : HasNonJsonValue(p.ops[i].op)
    [] OTHER -> FALSE

\* the Replace, Add and Remove leaves of the tree p
RECURSIVE CountLeaves(_)
RECURSIVE CountEntryLeaves(_, _)
CountEntryLeaves(ops, i) ==
  IF i > Len(ops) THEN 0 ELSE CountLeaves(ops[i].op) + CountEntryLeaves(ops, i + 1)

CountLeaves(p) ==
  CASE p._tag \in {"Replace", "Add", "Remove"} -> 1
    [] p._tag \in {"ObjectOps", "ArrayOps"} -> CountEntryLeaves(p.ops, 1)
    [] OTHER -> 0

\* C10: lowering is all-or-nothing: getJSONPatch returns Left, and no patch
\* entries at all, whenever an ObjectOps key anywhere in the tree is a symbol
\* or a Replace.to or Add.value anywhere is not JSON-representable, however
\* many valid entries precede it; otherwise it returns Right with the
\* complete list, one entry per leaf.
LoweringAllOrNothing ==
  jp # NoEither =>
    IF HasSymbolKey(patch.op) \/ HasNonJsonValue(patch.op)
    THEN jp._tag = "Left" /\ DOMAIN jp = {"_tag", "left"}
    ELSE jp._tag = "Right" /\ Len(jp.right) = CountLeaves(patch.op)

\* lowering has failed on a tree whose first entry is valid and whose
\* second entry is the offending one
LoweringWitness ==
  /\ jp._tag = "Left"
  /\ patch.op._tag \in {"ObjectOps", "ArrayOps"}
  /\ Len(patch.op.ops) = 2
  /\ ~(patch.op._tag = "ObjectOps" /\ patch.op.ops[1].key.sym)
  /\ ~HasNonJsonValue(patch.op.ops[1].op)
  /\ ~HasSymbolKey(patch.op.ops[1].op)
  /\ patch.op.ops[1].op._tag \in {"Replace", "Add", "Remove"}

\* what the claim has a tree lower to: its Replace, Add and Remove leaves
\* depth-first, entries lists first to last, each addressed by the keys on
\* the way from the root (keys) to it
RECURSIVE ClaimedLowering(_, _)
RECURSIVE ClaimedLoweringOfEntries(_, _, _)
ClaimedLoweringOfEntries(p, keys, i) ==
  IF i > Len(p.ops) THEN <<>>
  ELSE LET segment == IF p._tag = "ObjectOps" THEN p.ops[i].key.n ELSE String(p.ops[i].key)
       IN  ClaimedLowering(p.ops[i].op, Append(keys, segment))
             \o ClaimedLoweringOfEntries(p, keys, i + 1)

ClaimedLowering(p, keys) ==
  CASE p._tag = "Replace" -> <<[op |-> "replace", path |-> pointer(keys), value |-> p.to]>>
    [] p._tag = "Add" -> <<[op |-> "add", path |-> pointer(keys), value |-> p.value]>>
    [] p._tag = "Remove" -> <<[op |-> "remove", path |-> pointer(keys)]>>
    [] p._tag \in {"ObjectOps", "ArrayOps"} -> ClaimedLoweringOfEntries(p, keys, 1)
    [] OTHER -> <<>>

\* C11: lowering order and addressing: on success getJSONPatch emits exactly
\* one entry per Replace, Add and Remove leaf, depth-first and first to last,
\* each with the pointer of the keys and stringified indices from the root to
\* the leaf; the path stack is back to its previous content after each child;
\* a root Identical lowers to the empty list and a root Replace to one
\* replace entry with path "".
LoweringOrderAndAddressing ==
  jp._tag = "Right" =>
    /\ jp.right = ClaimedLowering(patch.op, <<>>)
    /\ lowerRoot(patch.op).path = <<>>
    /\ patch.op = identical => jp.right = <<>>
    /\ patch.op._tag = "Replace" =>
         jp.right = <<[op |-> "replace", path |-> <<>>, value |-> patch.op.to]>>

\* a tree three containers deep has been lowered: a leaf follows a nested
\* container in an entries list, and an index has two digits
LoweringOrderWitness ==
  /\ jp._tag = "Right"
  /\ patch.op \in DeepTrees
  /\ patch.op._tag = "ObjectOps"
  /\ patch.op.ops[1].op._tag = "ArrayOps"
  /\ Len(jp.right) = 3
  /\ jp.right[2].path = <<"/", "b", "/", "1", "0", "/", "~", "0", "1">>
  /\ jp.right[3].path = <<"/", "a">>

\* the keys from the root of a chain down to its leaf
RECURSIVE PathOf(_)
PathOf(p) ==
  IF p._tag = "ObjectOps" THEN <<p.ops[1].key.n>> \o PathOf(p.ops[1].op) ELSE <<>>

\* what the claim has one character of a segment become
ClaimedChar(c) ==
  CASE c = "~" -> <<"~", "0">>
    [] c = "/" -> <<"~", "1">>
    [] OTHER -> <<c>>

RECURSIVE ClaimedSegment(_)
ClaimedSegment(seg) ==
  IF seg = <<>> THEN <<>> ELSE ClaimedChar(Head(seg)) \o ClaimedSegment(Tail(seg))

RECURSIVE ClaimedPointer(_)
ClaimedPointer(path) ==
  IF path = <<>> THEN <<>>
  ELSE <<"/">> \o ClaimedSegment(Head(path)) \o ClaimedPointer(Tail(path))

\* C12: pointer escaping: pointer(path) is, segment by segment, "/" followed
\* by the segment with every "~" turned into "~0" and every "/" into "~1"
\* (an original "/" never yields "~01", an original "~" is never left bare);
\* the empty path gives "", the key "" gives "/" and the key "/" gives "/~1".
PointerEscaping ==
  (jp._tag = "Right" /\ patch.op \in PointerTrees) =>
    LET path == PathOf(patch.op)
    IN  /\ Len(jp.right) = 1
        /\ jp.right[1].path = ClaimedPointer(path)
        /\ pointer(path) = ClaimedPointer(path)
        /\ path = <<>> => jp.right[1].path = <<>>
        /\ path = <<<<>>>> => jp.right[1].path = <<"/">>
        /\ path = <<<<"/">>>> => jp.right[1].path = <<"/", "~", "1">>

\* a chain has been lowered whose first key holds a "/" after a "~" and
\* whose second key is empty
PointerEscapingWitness ==
  /\ jp._tag = "Right"
  /\ patch.op \in PointerTrees
  /\ PathOf(patch.op) = <<<<"~", "/">>, <<>>>>
  /\ jp.right[1].path = <<"/", "~", "0", "~", "1", "/">>

\* the tuple shapes with optional positions (and no rest element)
OptionalTuples == {a \in SequenceShapes : a._tag = "Tuple" /\ a.rest = <<>>}

\* what the claim has the differ emit for position i of a tuple of leaves
ClaimedTupleOp(a, i, f, t) ==
  CASE i < Len(f.v) /\ i < Len(t.v) -> differ(a.elements[i + 1].type, GetIndex(f, i), GetIndex(t, i)).op
    [] i >= Len(f.v) /\ i < Len(t.v) -> add(GetIndex(t, i))
    [] i < Len(f.v) /\ i >= Len(t.v) -> remove(GetIndex(f, i))
    [] OTHER -> identical

\* the remove entries of the positions i down to the length of t
RECURSIVE ClaimedRemoves(_, _)
ClaimedRemoves(i, t) ==
  IF i < Len(t.v) THEN <<>>
  ELSE <<[op |-> "remove", path |-> pointer(<<String(i)>>)]>> \o ClaimedRemoves(i - 1, t)

\* the replace and add entries of the positions from i on, ascending
RECURSIVE ClaimedReplacesAndAdds(_, _, _, _)
ClaimedReplacesAndAdds(a, i, f, t) ==
  IF i >= Len(t.v) THEN <<>>
  ELSE LET op == ClaimedTupleOp(a, i, f, t)
           here == CASE op._tag = "Replace" ->
                          <<[op |-> "replace", path |-> pointer(<<String(i)>>), value |-> op.to]>>
                     [] op._tag = "Add" ->
                          <<[op |-> "add", path |-> pointer(<<String(i)>>), value |-> op.value]>>
                     [] OTHER -> <<>>
       IN  here \o ClaimedReplacesAndAdds(a, i + 1, f, t)

\* C13: tuple with optional elements: a position present in to but absent
\* in from is diffed as Add and lowers to an add entry at /index, a position
\* present in from but absent in to is diffed as Remove and lowers to a
\* remove entry at /index; the remove entries come in descending index order
\* and ahead of the replace entries of the positions that remain.
TupleOptionalAddRemove ==
  (jp # NoEither /\ ast \in OptionalTuples) =>
    /\ \A i \in 0..(Len(ast.elements) - 1) :
         LET op == ClaimedTupleOp(ast, i, from, to)
         IN  op # identical =>
               /\ patch.op._tag = "ArrayOps"
               /\ \E j \in 1..Len(patch.op.ops) : patch.op.ops[j] = [key |-> i, op |-> op]
    /\ jp._tag = "Right"
    /\ jp.right = ClaimedRemoves(Len(from.v) - 1, to) \o ClaimedReplacesAndAdds(ast, 0, from, to)

\* the entry of an ArrayOps for index i: a set of at most one operation
EntryAt(p, i) == {p.ops[j].op : j \in {k \in 1..Len(p.ops) : p.ops[k].key = i}}

\* what the claim has an ArrayOps make of the array f from position i on:
\* every entry acts on the position its index denotes in f
RECURSIVE ClaimedArray(_, _, _)
ClaimedArray(p, f, i) ==
  LET e == EntryAt(p, i)
      added == IF \E o \in e : o._tag = "Add" THEN <<(CHOOSE o \in e : o._tag = "Add").value>>
               ELSE <<>>
      kept == CASE \E o \in e : o._tag = "Remove" -> <<>>
                [] \E o \in e : o._tag = "Replace" -> <<(CHOOSE o \in e : o._tag = "Replace").to>>
                [] OTHER -> <<GetIndex(f, i)>>
  IN  IF i >= Len(f.v) THEN added
      ELSE added \o kept \o ClaimedArray(p, f, i + 1)

\* C14: no index drift: runPatch on an ArrayOps with several entries makes
\* every Add, Remove and nested Replace act on the position its index
\* denoted at diff time, whatever the order of the entries in the list; an
\* Add inserts before its index and a Remove deletes the element at its index.
NoIndexDrift ==
  (out # NoValue /\ from \in ArrayDocs /\ patch.op._tag = "ArrayOps") =>
    StructEq(out, Arr("", ClaimedArray(patch.op, from, 0)))

\* C15: cycle-safe compilation: fromSchema terminates for every
\* self-referential shape, in particular for a struct one of whose optional
\* fields is a reference to the struct itself: compilation never re-enters
\* the compilation of a node that is already being compiled, and so never
\* exhausts the call stack.
CycleSafeCompilation ==
  /\ compiled # "overflow"
  /\ \A i \in 1..Len(stack) : \A j \in 1..Len(stack) :
       stack[i].ast = stack[j].ast => i = j

\* the struct a shape stands for: what its thunk returns when it is lazy
Resolved(a) == IF a._tag = "Lazy" THEN thunk(a.f) ELSE a

\* the names of the sequence-typed fields of a struct
SequenceFields(a) ==
  {a.propertySignatures[i].name :
     i \in {j \in 1..Len(a.propertySignatures) : a.propertySignatures[j].type._tag = "Tuple"}}

\* the keys of the entries of an operation
EntryKeys(p) == IF p._tag \in {"ObjectOps", "ArrayOps"} THEN {p.ops[i].key : i \in 1..Len(p.ops)} ELSE {}

Kept ==
  /\ patch # make(NoOp) => patch' = patch
  /\ rev # make(NoOp) => rev' = rev
  /\ out # NoValue => out' = out
  /\ back # NoValue => back' = back
  /\ jp # NoEither => jp' = jp
  /\ again # NoCall => again' = again
  /\ ast' = ast

DiffJsonRoundTrip ==
  /\ patch # make(NoOp) =>
       /\ StructEq(applyPatch(encode(ast, from), patch.patch), encode(ast, to))
       /\ StructEq(applyPatch(encode(ast, to), patch.inverse), encode(ast, from))
  /\ out # NoValue => StructEq(out, to)
  /\ rev # make(NoOp) =>
       rev = [schema |-> patch.schema, patch |-> patch.inverse, inverse |-> patch.patch]
  /\ back # NoValue => StructEq(back, from)

\* the declared positions of a tuple whose two values the position's differ
\* does not find identical
DifferingPositions(a, f, t) ==
  {i \in 0..(Len(a.elements) - 1) :
     differ(a.elements[i + 1].type, GetIndex(f, i), GetIndex(t, i)).op # identical}

DeclaredIndex(a, key) ==
  CHOOSE i \in 1..Len(a.propertySignatures) : a.propertySignatures[i].name = key

RECURSIVE NonEmptyContainers(_)
NonEmptyContainers(p) ==
  p._tag \in {"ObjectOps", "ArrayOps"} =>
    /\ Len(p.ops) > 0
    /\ \A i \in 1..Len(p.ops) :
         /\ p.ops[i].op._tag # "Identical"
         /\ NonEmptyContainers(p.ops[i].op)

\* C21: non-empty containers: in every operation tree a differ returns, at
\* every depth, each ObjectOps and each ArrayOps has at least one entry and no
\* entry's child is Identical; a comparison that finds no difference yields
\* Identical at the root (of a struct, record or tuple: never an empty
\* container) or no entry at a child; reverse preserves this.
NonEmptyContainersInvariant ==
  /\ Diffed =>
       /\ NonEmptyContainers(patch.op)
       /\ Resolved(ast)._tag \in {"Tuple", "TypeLiteral"} =>
            patch.op._tag \in {"Identical", "ObjectOps", "ArrayOps"}
  /\ rev # make(NoOp) =>
       /\ NonEmptyContainers(rev.op)
       /\ (rev.op = identical) <=> (patch.op = identical)

\* a struct holding a struct has been diffed on values whose inner structs
\* are equal and whose other field differs, and the result reversed: the one
\* entry is the other field's
NonEmptyContainersWitness ==
  /\ Diffed
  /\ rev # make(NoOp)
  /\ ast._tag = "TypeLiteral"
  /\ hasOwnProperty(from, keyB)
  /\ GetProp(from, keyB).k = "object"
  /\ StructEq(GetProp(from, keyB), GetProp(to, keyB))
  /\ patch.op._tag = "ObjectOps"
  /\ Len(patch.op.ops) = 1
  /\ patch.op.ops[1].key = keyA
  /\ rev.op._tag = "ObjectOps"

\* x[key]: the value of x at a key of an ObjectOps or an index of an ArrayOps
ValueAt(x, tag, key) == IF tag = "ObjectOps" THEN GetProp(x, key) ELSE GetIndex(x, key)

\* the leaf operations of the tree p hold the values f and t have where the
\* operation stands
RECURSIVE CarriesValues(_, _, _)
CarriesValues(p, f, t) ==
  CASE p._tag = "Replace" -> p.from = f /\ p.to = t
    [] p._tag = "Remove" -> p.value = f
    [] p._tag = "Add" -> p.value = t
    [] p._tag \in {"ObjectOps", "ArrayOps"} ->
         \A i \in 1..Len(p.ops) :
           CarriesValues(p.ops[i].op, ValueAt(f, p._tag, p.ops[i].key),
                         ValueAt(t, p._tag, p.ops[i].key))
    [] OTHER -> TRUE

\* C22: ops carry the actual values: in every operation tree
\* differ(from, to) returns, each Replace at a key path holds in from the
\* value of from at that path and in to the value of to at that path, each
\* Remove holds the value of from at its path and each Add the value of to
\* at its path.
OpsCarryActualValues ==
  Diffed => CarriesValues(patch.op, from, to)

\* a diff holds, two containers deep, a Remove of a value that is not undefined
OpsCarryActualValuesWitness ==
  /\ Diffed
  /\ patch.op._tag = "ObjectOps"
  /\ \E i \in 1..Len(patch.op.ops) :
       /\ patch.op.ops[i].op._tag = "ObjectOps"
       /\ \E j \in 1..Len(patch.op.ops[i].op.ops) :
            /\ patch.op.ops[i].op.ops[j].op._tag = "Remove"
            /\ patch.op.ops[i].op.ops[j].op.value # undefined

\* r is p with every leaf turned round and nothing else changed
RECURSIVE IsReversalOf(_, _)
IsReversalOf(r, p) ==
  CASE p._tag = "Identical" -> r = identical
    [] p._tag = "Replace" -> r._tag = "Replace" /\ r.from = p.to /\ r.to = p.from
    [] p._tag = "Add" -> r._tag = "Remove" /\ r.value = p.value
    [] p._tag = "Remove" -> r._tag = "Add" /\ r.value = p.value
    [] p._tag \in {"ObjectOps", "ArrayOps"} ->
         /\ r._tag = p._tag
         /\ Len(r.ops) = Len(p.ops)
         /\ \A i \in 1..Len(p.ops) :
              /\ r.ops[i].key = p.ops[i].key
              /\ IsReversalOf(r.ops[i].op, p.ops[i].op)

\* C23: reversal is structural: reverse maps Identical to Identical,
\* Replace{from, to} to Replace{to, from}, Add{value} to Remove{value} and
\* Remove{value} to Add{value} with the same value, and an ObjectOps or
\* ArrayOps to a container of the same kind with the same keys or indices in
\* the same order and each child reversed; it never reorders entries and
\* never looks inside the carried values.
ReversalStructural ==
  rev # make(NoOp) => IsReversalOf(rev.op, patch.op)

\* a tree three containers deep, whose entries are not in key order and one
\* of whose leaves carries an object, has been reversed
ReversalStructuralWitness ==
  /\ rev # make(NoOp)
  /\ patch.op \in DeepTrees
  /\ patch.op._tag = "ObjectOps"
  /\ patch.op.ops[1].op.ops[1].op = remove(Obj("r1", <<[key |-> keyA, val |-> Str("x")]>>))
  /\ rev.op.ops[1].op.ops[1].op = add(Obj("r1", <<[key |-> keyA, val |-> Str("x")]>>))
  /\ patch.op.ops[2].op._tag = "Add"

\* C24: refinement delegates to its base: for every refinement shape over a
\* base shape and every pair of values, the differ compiled for the
\* refinement returns the operation tree the differ compiled for the base
\* returns; the predicate is never evaluated during diffing.
RefinementDelegates ==
  (Diffed /\ again # NoCall /\ ast._tag = "Refinement") => patch = again.patch

\* the differ of a refinement of number and the differ of number have been
\* called on NaN and NaN, which no refinement of the model admits
RefinementDelegatesWitness ==
  /\ Diffed
  /\ again # NoCall
  /\ ast = refinement(numberKeyword)
  /\ from = NaN
  /\ to = NaN
  /\ patch.op = identical

\* no two entries of the container p have the same key
DistinctKeys(p) ==
  \A i \in 1..Len(p.ops) : \A j \in 1..Len(p.ops) : p.ops[i].key = p.ops[j].key => i = j

\* C25: sibling order does not matter for objects: in every ObjectOps a
\* differ returns the keys of the entries are pairwise distinct, and runPatch
\* applied to any permutation of the entries of an ObjectOps with pairwise
\* distinct keys yields the same result on the same input.
SiblingOrderIrrelevant ==
  /\ (Diffed /\ patch.op._tag = "ObjectOps") => DistinctKeys(patch.op)
  /\ (again # NoCall /\ out # NoValue /\ DistinctKeys(patch.op)) => StructEq(again.out, out)

\* the second part of C25 alone: the entries of an ObjectOps with pairwise
\* distinct keys applied in another order
PermutedEntriesSameResult ==
  (again # NoCall /\ out # NoValue /\ DistinctKeys(patch.op)) => StructEq(again.out, out)

\* the first part of C25 on the shapes no two index signatures of which
\* enumerate the same key
DistinctKeysWithoutOverlap ==
  (Diffed /\ patch.op._tag = "ObjectOps" /\ ast # overlappingRecord) => DistinctKeys(patch.op)

\* the objects and arrays of x, x included
RECURSIVE ContainersOf(_)
ContainersOf(x) ==
  CASE x.k = "object" -> {x} \cup UNION {ContainersOf(x.v[i].val) : i \in 1..Len(x.v)}
    [] x.k = "array" -> {x} \cup UNION {ContainersOf(x.v[i]) : i \in 1..Len(x.v)}
    [] OTHER -> {}

\* the values the operations of p carry
RECURSIVE Operands(_)
Operands(p) ==
  CASE p._tag = "Replace" -> {p.from, p.to}
    [] p._tag \in {"Add", "Remove"} -> {p.value}
    [] p._tag \in {"ObjectOps", "ArrayOps"} -> UNION {Operands(p.ops[i].op) : i \in 1..Len(p.ops)}
    [] OTHER -> {}

\* every object of result that is one the caller held before the call (in
\* the input or in the patch) is as the caller held it
NothingModified(result, input, p) ==
  \A c \in ContainersOf(result) :
    c.s # "" => c \in UNION {ContainersOf(x) : x \in {input} \cup Operands(p)}

\* the entries of p hold an Add or a Remove
HasAddOrRemove(p) == \E i \in 1..Len(p.ops) : p.ops[i].op._tag \in {"Add", "Remove"}

\* C26: frame of runPatch: runPatch never modifies the value it is applied
\* to nor the patch; Identical returns the input itself, Replace returns its
\* to whatever the input is, and for ObjectOps and ArrayOps the result is a
\* fresh shallow copy in which every key (or index, when the patch holds no
\* Add or Remove) that no entry names holds the value it holds in the input.
RunPatchFrame ==
  (out # NoValue /\ from \in FrameDocs) =>
    /\ NothingModified(out, from, patch.op)
    /\ patch.op = identical => out = from
    /\ patch.op._tag = "Replace" => out = patch.op.to
    /\ patch.op._tag = "ObjectOps" =>
         /\ out.k = "object"
         /\ out.s = ""
         /\ OwnKeys(out) \subseteq OwnKeys(from) \cup EntryKeys(patch.op)
         /\ \A key \in OwnKeys(from) \ EntryKeys(patch.op) :
              hasOwnProperty(out, key) /\ GetProp(out, key) = GetProp(from, key)
    /\ patch.op._tag = "ArrayOps" =>
         /\ out.k = "array"
         /\ out.s = ""
         /\ ~HasAddOrRemove(patch.op) =>
              /\ Len(out.v) = Len(from.v)
              /\ \A i \in (0..(Len(from.v) - 1)) \ EntryKeys(patch.op) :
                   GetIndex(out, i) = GetIndex(from, i)

\* runPatch has changed a key of the object the input holds under b: the
\* result and its b are fresh objects, and its a and its symbol key hold what
\* the input holds
RunPatchFrameWitness ==
  /\ out # NoValue
  /\ from.k = "object"
  /\ patch.op = objectOps(<<[key |-> keyB,
                             op |-> objectOps(<<[key |-> keyC,
                                                 op |-> replace(Str("x"), Str("y"))]>>)]>>)
  /\ out.s = ""
  /\ GetProp(out, keyB) = Obj("", <<[key |-> keyC, val |-> Str("y")]>>)
  /\ GetProp(from, keyB) = innerDoc
  /\ GetProp(out, symA) = Str("x")

\* the shape is built from number, string and boolean leaves, structs,
\* records and tuples of required elements
RECURSIVE BuiltFromPlainLeaves(_)
BuiltFromPlainLeaves(a) ==
  CASE a._tag \in {"NumberKeyword", "StringKeyword", "BooleanKeyword"} -> TRUE
    [] a._tag = "TypeLiteral" ->
         /\ \A i \in 1..Len(a.propertySignatures) :
              BuiltFromPlainLeaves(a.propertySignatures[i].type)
         /\ \A i \in 1..Len(a.indexSignatures) :
              BuiltFromPlainLeaves(a.indexSignatures[i].type)
    [] a._tag = "Tuple" ->
         /\ a.rest = <<>>
         /\ \A i \in 1..Len(a.elements) :
              ~a.elements[i].isOptional /\ BuiltFromPlainLeaves(a.elements[i].type)
    [] OTHER -> FALSE

\* C27: Identical means equal: for shapes built from number, string and
\* boolean leaves, structs, records and tuples of required elements, and
\* values without keys outside the shape, differ(from, to).op is Identical if
\* and only if from and to are structurally equal with leaves compared by
\* identity-style equality; a non-Identical result is returned exactly when
\* runPatch has to change from.
IdenticalMeansEqual ==
  (Diffed /\ BuiltFromPlainLeaves(ast)) =>
    /\ (patch.op = identical) <=> StructEq(from, to)
    /\ out # NoValue => ((patch.op # identical) <=> ~StructEq(out, from))

\* a struct of a string and a number has been diffed on two values that hold
\* the same string and NaN, their keys in opposite orders, and the patch run
IdenticalMeansEqualWitness ==
  /\ Diffed
  /\ out # NoValue
  /\ BuiltFromPlainLeaves(ast)
  /\ ast._tag = "TypeLiteral"
  /\ from # to
  /\ GetProp(from, keyB) = NaN
  /\ GetProp(to, keyB) = NaN
  /\ GetProp(from, keyA) = GetProp(to, keyA)
  /\ patch.op = identical

\* C28: keys outside the shape are invisible to the differ: for a struct
\* without index signature, an own key of from or to that is not a declared
\* field never appears in the operation tree, so differ(from, to) is what it
\* is without such keys, whatever they are; and runPatch(differ(from, to))
\* on from keeps exactly the undeclared keys of from with their from values.
KeysOutsideInvisible ==
  /\ Diffed => EntryKeys(patch.op) \subseteq expectedKeys(ast)
  /\ (Diffed /\ again # NoCall) => patch = again.patch
  /\ out # NoValue =>
       /\ OwnKeys(out) \ expectedKeys(ast) = OwnKeys(from) \ expectedKeys(ast)
       /\ \A key \in OwnKeys(from) \ expectedKeys(ast) : GetProp(out, key) = GetProp(from, key)

\* a struct has been diffed on a from that holds an undeclared string key and
\* a to that holds it with another value and an undeclared symbol key
\* besides, and the patch, which has an entry, run on from
KeysOutsideInvisibleWitness ==
  /\ Diffed
  /\ again # NoCall
  /\ out # NoValue
  /\ GetProp(from, keySlash) = Str("x")
  /\ GetProp(to, keySlash) = Str("y")
  /\ ~hasOwnProperty(from, symA)
  /\ hasOwnProperty(to, symA)
  /\ patch.op._tag = "ObjectOps"
  /\ GetProp(out, keySlash) = Str("x")
  /\ ~hasOwnProperty(out, symA)

\* the leaf operations of the tree p, each with the keys that lead to it
RECURSIVE LeavesWithPaths(_, _)
LeavesWithPaths(p, path) ==
  CASE p._tag \in {"ObjectOps", "ArrayOps"} ->
         UNION {LeavesWithPaths(p.ops[i].op, Append(path, p.ops[i].key)) : i \in 1..Len(p.ops)}
    [] p._tag = "Identical" -> {}
    [] OTHER -> {<<path, p>>}

\* the shape has only declared fields and fixed positions, at every depth
\* the differ reaches
RECURSIVE OnlyDeclared(_)
OnlyDeclared(a) ==
  CASE a._tag = "TypeLiteral" ->
         /\ a.indexSignatures = <<>>
         /\ \A i \in 1..Len(a.propertySignatures) : OnlyDeclared(a.propertySignatures[i].type)
    [] a._tag = "Tuple" -> \A i \in 1..Len(a.elements) : OnlyDeclared(a.elements[i].type)
    [] a._tag = "Refinement" -> OnlyDeclared(a.from)
    [] a._tag = "Lazy" -> OnlyDeclared(thunk(a.f))
    [] OTHER -> TRUE

\* C29: reversing a diff versus diffing the other way: for struct, record
\* and tuple shapes and every pair from, to, reverse(differ(from, to)) and
\* differ(to, from) contain the same set of (path, leaf op) pairs and have
\* the same effect under runPatch on to; for shapes with only declared
\* fields or fixed positions they are equal as trees, entry order included.
ReverseIsDiffTheOtherWay ==
  (Resolved(ast)._tag \in {"TypeLiteral", "Tuple"} /\ rev # make(NoOp)) =>
    LET other == fromSchema(ast, to, from)
    IN  /\ LeavesWithPaths(rev.op, <<>>) = LeavesWithPaths(other.op, <<>>)
        /\ back # NoValue => StructEq(back, runPatch(other, to))
        /\ OnlyDeclared(ast) => rev = other

\* a record has been diffed on two values that hold the same two keys in
\* opposite orders, the result reversed and run on to: the reversal lists
\* the two entries in the order opposite to that of the diff the other way
ReverseIsDiffTheOtherWayWitness ==
  /\ rev # make(NoOp)
  /\ back # NoValue
  /\ ast = record(stringKeyword, stringKeyword)
  /\ rev.op._tag = "ObjectOps"
  /\ Len(rev.op.ops) = 2
  /\ rev.op.ops[1].op._tag = "Replace"
  /\ rev.op.ops[2].op._tag = "Replace"
  /\ rev # fromSchema(ast, to, from)
  /\ rev.op.ops[1] = fromSchema(ast, to, from).op.ops[2]

\* the sequences of at most two segments
SegmentPaths ==
  {<<>>} \cup {<<s1>> : s1 \in Segments} \cup {<<s1, s2>> : s1 \in Segments, s2 \in Segments}

\* the strings pointer returns for them
PointerStrings == {pointer(path) : path \in SegmentPaths}

\* C30: pointer encoding is injective: for any two different sequences of
\* string segments (segments that are empty or hold "~" or "/" included),
\* pointer returns different strings (there are as many strings as there are
\* sequences), so two distinct locations of a document are never lowered to
\* the same path.
PointerInjective ==
  (jp._tag = "Right" /\ patch.op \in PointerTrees) =>
    /\ jp.right[1].path = pointer(PathOf(patch.op))
    /\ PathOf(patch.op) \in SegmentPaths
    /\ Cardinality(PointerStrings) = Cardinality(SegmentPaths)

\* the one-segment path of the key "~1" has been lowered, to "/~01": the
\* path of the key "/" is lowered to "/~1" and that of the two empty keys
\* to "//"
PointerInjectiveWitness ==
  /\ jp._tag = "Right"
  /\ patch.op \in PointerTrees
  /\ PathOf(patch.op) = <<<<"~", "1">>>>
  /\ jp.right[1].path = <<"/", "~", "0", "1">>
  /\ pointer(<<<<"/">>>>) = <<"/", "~", "1">>
  /\ pointer(<<<<>>, <<>>>>) = <<"/", "/">>

====
